---- MODULE Spec2Model ----
(***************************************************************************)
(* Model of the fractal_explorer core: the viewport transforms of          *)
(* FractalRenderer2D, the chaos-game accumulation kernel, the analytic     *)
(* Sierpinski kernel, the iteration budget each family hands to its        *)
(* kernel, and the Mandelbrot escape-time kernel.                          *)
(*                                                                         *)
(* Python floats are modelled as exact rationals <<n, d>> (d > 0, lowest   *)
(* terms): every statement below is about the real-number value of the     *)
(* code's expressions, floating rounding left out.                         *)
(***************************************************************************)
EXTENDS Integers, Sequences, FiniteSets, TLC

VARIABLES
    current_bounds,   \* FractalRenderer2D.current_bounds  <<xmin, xmax, ymin, ymax>>
    view_default,     \* FractalRenderer2D.fractal.get_default_bounds()
    view_hist,        \* the last viewport calls: [op, center_x, center_y, zoom_factor, before]
    view_ops,         \* number of viewport calls made so far
    ifs_args,         \* compute_sierpinski's arguments [iterations, bounds]
    ifs_x,            \* compute_sierpinski: x
    ifs_y,            \* compute_sierpinski: y
    ifs_i,            \* compute_sierpinski: loop index i
    ifs_result,       \* compute_sierpinski: result, before the log1p/normalize step
    ifs_pc,           \* "idle", "loop" or "done"
    sp_args,          \* sierpinski_escape_time's arguments [bounds, max_iter]
    sp_result,        \* sierpinski_escape_time: result, the cells filled so far, row by row
    bc_call,          \* the last call made to a family: [method, family, bounds, params]
    bc_budget,        \* the budget that call handed to its kernel, or the value it returned
    esc_args,         \* mandelbrot_kernel's arguments and the pixel: [bounds, max_iter, px, py]
    esc_z,            \* mandelbrot_kernel: z = <<re, im>>
    esc_i,            \* mandelbrot_kernel: loop index i
    esc_value,        \* mandelbrot_kernel: result[py, px]
    esc_pc,           \* "idle", "loop" or "done"
    rd_family,        \* FractalRenderer2D.fractal: the family's name
    rd_size,          \* FractalRenderer2D: <<width, height>>
    current_data,     \* FractalRenderer2D.current_data: [call, level, h, w], call = 0 for None
    cache_hits,       \* FractalRenderer2D._cache_hits
    cache_misses,     \* FractalRenderer2D._cache_misses
    rd_call,          \* the render call in progress, or the last one: [id, bounds, progressive, params]
    rd_pc,            \* "idle", or "ladder" inside _progressive_render
    rd_level,         \* _progressive_render: index of the next level in progressive_levels
    rd_image,         \* the image last made by get_colors: [call, shape], shape = <<>> for none
    rd_outcome,       \* how the last render call ended: "none", "returned" or "raised"
    rd_done,          \* number of render calls that have ended
    rd_returned,      \* number of render calls that have returned an image
    rd_compute,       \* the last fractal.compute call: [id, w, h, bounds, params, result]
    rd_computes,      \* number of fractal.compute calls made
    rd_kept,          \* current_data as the last render call that returned left it
    rd_save,          \* the last save_image call: [call, high_res, outcome, size], size before the call
    palette,          \* ColorMapper.palette
    invert,           \* ColorMapper.invert
    pal_start,        \* the palette before the first cycle_palette call
    pal_calls,        \* the cycle_palette calls made: <<[forward, palette afterwards], ...>>
    ui_renderer,      \* FractalExplorerWindow.renderer is set
    ui_initializing,  \* FractalExplorerWindow._initializing, as set from outside
    ui_progressive,   \* ControlPanel.progressive_check
    ui_adaptive,      \* ControlPanel.adaptive_check
    render_params,    \* FractalExplorerWindow.render_params
    canvas_image,     \* FractalCanvas image: [data, palette, invert] it was made from
    ui_status,        \* status bar message
    ui_dialog,        \* title of the last QMessageBox.critical, "none" if none
    ui_event,         \* the last handler run: [handler, initializing, render, computes, image_before, status_before]
    ui_ops,           \* number of handlers run
    col_field,        \* ColorMapper.get_colors: the values argument, [h, w, cells]
    col_image,        \* the image get_colors returned: [shape, pixels], pixels one <<r, g, b>> per cell
    col_call,         \* the last ColorMapper call: [op, known, outcome]
    col_ops,          \* number of ColorMapper calls made
    det_hash,         \* hash(str(bounds)) % 2**31 in the running interpreter process, per bounds
    det_run,          \* number of the interpreter process, counted from 1
    det_log,          \* the compute calls made so far: [family, w, h, bounds, max_iter, run, field]
    ship_args,        \* burning_ship_kernel: [bounds, max_iter, px, py] of the pixel under computation
    ship_z,           \* <<zr, zi>>
    ship_i,           \* the loop variable i
    ship_value,       \* the value stored in result[py, px]
    ship_pc,          \* "loop" inside the iteration loop, "done" after it
    ag_args,          \* the renderer and the render arguments: [family, size, params]
    ag_bounds,        \* the bounds argument of both render calls
    ag_direct,        \* render(progressive=False): [outcome, data, image]
    ag_ladder,        \* render(progressive=True): [outcome, data, image], current_data and the image so far
    ag_levels,        \* the ladder levels computed so far: [level, w, h, upscaled]
    ag_pc,            \* "ladder" inside _progressive_render
    co_args,          \* a renderer and a pixel: [family, bounds, w, h, px, py]
    co_point,         \* pixel_to_fractal(px, py)
    co_cell,          \* <<row, column>> of the field cell the kernel stores that point in
    co_pc             \* "pixel", "point", "cell": how far the computation is

view_vars == <<current_bounds, view_default, view_hist, view_ops>>

ifs_vars == <<ifs_args, ifs_x, ifs_y, ifs_i, ifs_result, ifs_pc>>

sp_vars == <<sp_args, sp_result>>

bc_vars == <<bc_call, bc_budget>>

esc_vars == <<esc_args, esc_z, esc_i, esc_value, esc_pc>>

rd_vars ==
    <<rd_family, rd_size, current_data, cache_hits, cache_misses, rd_call, rd_pc, rd_level,
      rd_image, rd_outcome, rd_done, rd_returned, rd_compute, rd_computes, rd_kept,
      rd_save>>

cm_vars == <<palette, invert>>

pal_vars == <<pal_start, pal_calls>>

ui_vars ==
    <<ui_renderer, ui_initializing, ui_progressive, ui_adaptive, render_params, canvas_image,
      ui_status, ui_dialog, ui_event, ui_ops>>

col_vars == <<col_field, col_image, col_call, col_ops>>

det_vars == <<det_hash, det_run, det_log>>

ship_vars == <<ship_args, ship_z, ship_i, ship_value, ship_pc>>

ag_vars == <<ag_args, ag_bounds, ag_direct, ag_ladder, ag_levels, ag_pc>>

co_vars == <<co_args, co_point, co_cell, co_pc>>

vars ==
    <<view_vars, ifs_vars, sp_vars, bc_vars, esc_vars, rd_vars, cm_vars, pal_vars,
      ui_vars, col_vars, det_vars, ship_vars, ag_vars, co_vars>>

----------------------------------------------------------------------------
(* Exact rational arithmetic.                                              *)

AbsInt(n) == IF n < 0 THEN -n ELSE n

RECURSIVE Gcd(_, _)
Gcd(a, b) == IF b = 0 THEN a ELSE Gcd(b, a % b)

\* n/d in lowest terms with a positive denominator
R(n, d) ==
    LET s == IF d < 0 THEN -1 ELSE 1
        g == Gcd(AbsInt(n), AbsInt(d))
    IN  <<(s * n) \div g, (s * d) \div g>>

RI(n) == <<n, 1>>

RAdd(p, q) ==
    LET g == Gcd(p[2], q[2])
    IN  R(p[1] * (q[2] \div g) + q[1] * (p[2] \div g), (p[2] \div g) * q[2])

RNeg(p) == <<-p[1], p[2]>>

RSub(p, q) == RAdd(p, RNeg(q))

RMul(p, q) ==
    LET g1 == Gcd(AbsInt(p[1]), q[2])
        g2 == Gcd(AbsInt(q[1]), p[2])
    IN  IF p[1] = 0 \/ q[1] = 0 THEN <<0, 1>>
        ELSE <<(p[1] \div g1) * (q[1] \div g2), (p[2] \div g2) * (q[2] \div g1)>>

\* p / q, q # 0
RDiv(p, q) == RMul(p, R(q[2], q[1]))

RLt(p, q) == p[1] * q[2] < q[1] * p[2]

RLe(p, q) == p[1] * q[2] <= q[1] * p[2]

RMin(p, q) == IF RLe(p, q) THEN p ELSE q

RMax(p, q) == IF RLe(p, q) THEN q ELSE p

\* Python int(): truncation toward zero
RInt(p) == IF p[1] >= 0 THEN p[1] \div p[2] ELSE -((-p[1]) \div p[2])

----------------------------------------------------------------------------
(* Viewport: FractalRenderer2D.zoom and pixel_to_fractal.                  *)

\* canvas size of the renderer under test
ViewWidth == 4

ViewHeight == 2

\* number of viewport calls in one run
MaxOps == 2

\* get_default_bounds() of MandelbrotSet, JuliaSet and SierpinskiTriangle
MandelbrotDefaultBounds == <<R(-5, 2), RI(1), R(-5, 4), R(5, 4)>>

JuliaDefaultBounds == <<RI(-2), RI(2), R(-3, 2), R(3, 2)>>

SierpinskiDefaultBounds == <<R(-1, 10), R(11, 10), R(-1, 10), RI(1)>>

ViewDefaults == {MandelbrotDefaultBounds, JuliaDefaultBounds, SierpinskiDefaultBounds}

\* zoom factors a caller passes (zoom in, zoom out)
ZoomFactors == {RI(2), R(1, 2)}

BoundsWidth(b) == RSub(b[2], b[1])

BoundsHeight(b) == RSub(b[4], b[3])

ValidBounds(b) == RLt(b[1], b[2]) /\ RLt(b[3], b[4])

pixel_to_fractal(b, px, py) ==
    <<RAdd(b[1], RMul(R(px, ViewWidth), BoundsWidth(b))),
      RAdd(b[3], RMul(R(py, ViewHeight), BoundsHeight(b)))>>

\* the bounds zoom() stores, from the bounds b it reads
ZoomBounds(b, center_x, center_y, zoom_factor) ==
    LET fx == RAdd(b[1], RMul(R(center_x, ViewWidth), BoundsWidth(b)))
        fy == RAdd(b[3], RMul(R(center_y, ViewHeight), BoundsHeight(b)))
        new_width == RDiv(BoundsWidth(b), zoom_factor)
        new_height == RDiv(BoundsHeight(b), zoom_factor)
        half_w == RDiv(new_width, RI(2))
        half_h == RDiv(new_height, RI(2))
    IN  <<RSub(fx, half_w), RAdd(fx, half_w), RSub(fy, half_h), RAdd(fy, half_h)>>

\* keep the last two calls
Remember(call) ==
    IF Len(view_hist) < 2 THEN Append(view_hist, call)
    ELSE <<view_hist[2], call>>

zoom(center_x, center_y, zoom_factor) ==
    /\ view_ops < MaxOps
    /\ current_bounds' = ZoomBounds(current_bounds, center_x, center_y, zoom_factor)
    /\ view_hist' = Remember([op |-> "zoom", center_x |-> center_x, center_y |-> center_y,
                              zoom_factor |-> zoom_factor, before |-> current_bounds])
    /\ view_ops' = view_ops + 1
    /\ UNCHANGED view_default
    /\ UNCHANGED <<ifs_vars, sp_vars, bc_vars, esc_vars, rd_vars, cm_vars, pal_vars, ui_vars, col_vars, det_vars, ship_vars, ag_vars, co_vars>>

\* corner pixels a caller passes to zoom_rectangle, and pixel amounts passed to pan
RectXs == {0, ViewWidth - 1}

RectYs == {0, ViewHeight - 1}

PanSteps == {-1, 0, 1}

\* zoom_rectangle storing the corners in the order given, without min and max
RectangleBoundsAsGiven(b, x1, y1, x2, y2) ==
    LET fx1 == RAdd(b[1], RMul(R(x1, ViewWidth), BoundsWidth(b)))
        fx2 == RAdd(b[1], RMul(R(x2, ViewWidth), BoundsWidth(b)))
        fy1 == RAdd(b[3], RMul(R(y1, ViewHeight), BoundsHeight(b)))
        fy2 == RAdd(b[3], RMul(R(y2, ViewHeight), BoundsHeight(b)))
    IN  <<fx1, fx2, fy1, fy2>>

\* the bounds zoom_rectangle() stores, from the bounds b it reads
RectangleBounds(b, x1, y1, x2, y2) ==
    LET fx1 == RAdd(b[1], RMul(R(x1, ViewWidth), BoundsWidth(b)))
        fx2 == RAdd(b[1], RMul(R(x2, ViewWidth), BoundsWidth(b)))
        fy1 == RAdd(b[3], RMul(R(y1, ViewHeight), BoundsHeight(b)))
        fy2 == RAdd(b[3], RMul(R(y2, ViewHeight), BoundsHeight(b)))
    IN  <<RMin(fx1, fx2), RMax(fx1, fx2), RMin(fy1, fy2), RMax(fy1, fy2)>>

zoom_rectangle(x1, y1, x2, y2) ==
    /\ view_ops < MaxOps
    /\ current_bounds' = RectangleBounds(current_bounds, x1, y1, x2, y2)
    /\ view_hist' = Remember([op |-> "zoom_rectangle", x1 |-> x1, y1 |-> y1, x2 |-> x2,
                              y2 |-> y2, before |-> current_bounds])
    /\ view_ops' = view_ops + 1
    /\ UNCHANGED view_default
    /\ UNCHANGED <<ifs_vars, sp_vars, bc_vars, esc_vars, rd_vars, cm_vars, pal_vars, ui_vars, col_vars, det_vars, ship_vars, ag_vars, co_vars>>

\* pan moving the lower edges only
PanBoundsLowerEdges(b, dx, dy) ==
    LET fx_delta == RMul(R(dx, ViewWidth), BoundsWidth(b))
        fy_delta == RMul(R(dy, ViewHeight), BoundsHeight(b))
    IN  <<RAdd(b[1], fx_delta), b[2], RAdd(b[3], fy_delta), b[4]>>

\* the bounds pan() stores, from the bounds b it reads
PanBounds(b, dx, dy) ==
    LET fx_delta == RMul(R(dx, ViewWidth), BoundsWidth(b))
        fy_delta == RMul(R(dy, ViewHeight), BoundsHeight(b))
    IN  <<RAdd(b[1], fx_delta), RAdd(b[2], fx_delta), RAdd(b[3], fy_delta), RAdd(b[4], fy_delta)>>

pan(dx, dy) ==
    /\ view_ops < MaxOps
    /\ current_bounds' = PanBounds(current_bounds, dx, dy)
    /\ view_hist' = Remember([op |-> "pan", dx |-> dx, dy |-> dy, before |-> current_bounds])
    /\ view_ops' = view_ops + 1
    /\ UNCHANGED view_default
    /\ UNCHANGED <<ifs_vars, sp_vars, bc_vars, esc_vars, rd_vars, cm_vars, pal_vars, ui_vars, col_vars, det_vars, ship_vars, ag_vars, co_vars>>

\* reset_view clearing the cache only
ResetViewKeepingBounds ==
    /\ view_ops < MaxOps
    /\ view_hist' = Remember([op |-> "reset_view", before |-> current_bounds])
    /\ view_ops' = view_ops + 1
    /\ UNCHANGED <<current_bounds, view_default>>
    /\ UNCHANGED <<ifs_vars, sp_vars, bc_vars, esc_vars, rd_vars, cm_vars, pal_vars, ui_vars, col_vars, det_vars, ship_vars, ag_vars, co_vars>>

reset_view ==
    /\ view_ops < MaxOps
    /\ current_bounds' = view_default
    /\ view_hist' = Remember([op |-> "reset_view", before |-> current_bounds])
    /\ view_ops' = view_ops + 1
    /\ UNCHANGED view_default
    /\ UNCHANGED <<ifs_vars, sp_vars, bc_vars, esc_vars, rd_vars, cm_vars, pal_vars, ui_vars, col_vars, det_vars, ship_vars, ag_vars, co_vars>>

ViewInit ==
    /\ view_default \in ViewDefaults
    /\ current_bounds = view_default
    /\ view_hist = <<>>
    /\ view_ops = 0

ViewNext ==
    \/ \E center_x \in 0 .. ViewWidth - 1, center_y \in 0 .. ViewHeight - 1, f \in ZoomFactors :
          zoom(center_x, center_y, f)
    \/ \E x1 \in RectXs, y1 \in RectYs, x2 \in RectXs, y2 \in RectYs :
          zoom_rectangle(x1, y1, x2, y2)
    \/ \E dx \in PanSteps, dy \in PanSteps : pan(dx, dy)
    \/ reset_view

ViewIdle ==
    /\ view_default = MandelbrotDefaultBounds
    /\ current_bounds = MandelbrotDefaultBounds
    /\ view_hist = <<>>
    /\ view_ops = 0

\* the last two calls were zoom(c, f) and then zoom(c, 1/f)
IsRoundTrip ==
    /\ Len(view_hist) = 2
    /\ view_hist[1].op = "zoom" /\ view_hist[2].op = "zoom"
    /\ view_hist[1].center_x = view_hist[2].center_x
    /\ view_hist[1].center_y = view_hist[2].center_y
    /\ RMul(view_hist[1].zoom_factor, view_hist[2].zoom_factor) = RI(1)
    /\ ValidBounds(view_hist[1].before)

\* C1 as stated: zoom(c, f) followed by zoom(c, 1/f), for any pixel c of the canvas,
\* leaves current_bounds equal to the bounds before the two calls.
C1_ZoomRoundTrip ==
    IsRoundTrip => current_bounds = view_hist[1].before

\* C11 as stated: starting from a family's default bounds, after any sequence of
\* zoom, zoom_rectangle, pan and reset_view calls current_bounds has xmin < xmax
\* and ymin < ymax.
C11_BoundsStayValid == ValidBounds(current_bounds)

\* C2 as stated: after zoom(center_x, center_y, factor) the pixel (center_x, center_y)
\* maps to the coordinate it mapped to before the call, and the width and the
\* height of the bounds are each divided by factor.
C2_ZoomAnchor ==
    (view_hist # <<>> /\ view_hist[Len(view_hist)].op = "zoom") =>
        LET call == view_hist[Len(view_hist)]
        IN  /\ pixel_to_fractal(current_bounds, call.center_x, call.center_y)
                  = pixel_to_fractal(call.before, call.center_x, call.center_y)
            /\ BoundsWidth(current_bounds) = RDiv(BoundsWidth(call.before), call.zoom_factor)
            /\ BoundsHeight(current_bounds) = RDiv(BoundsHeight(call.before), call.zoom_factor)

\* the last call made on the viewport
LastCall == view_hist[Len(view_hist)]

LastOp == IF view_hist = <<>> THEN "none" ELSE LastCall.op

\* C23: zoom_rectangle gives the same current_bounds for the four orders of a pair
\* of corners; the bounds have xmin <= xmax and ymin <= ymax, and their components
\* are the images of the corner pixels under pixel_to_fractal on the bounds
\* before the call.
C23_CornerOrderFree ==
    LastOp = "zoom_rectangle" =>
        LET c == LastCall
            p1 == pixel_to_fractal(c.before, c.x1, c.y1)
            p2 == pixel_to_fractal(c.before, c.x2, c.y2)
        IN  /\ current_bounds = RectangleBounds(c.before, c.x2, c.y2, c.x1, c.y1)
            /\ current_bounds = RectangleBounds(c.before, c.x1, c.y2, c.x2, c.y1)
            /\ current_bounds = RectangleBounds(c.before, c.x2, c.y1, c.x1, c.y2)
            /\ RLe(current_bounds[1], current_bounds[2])
            /\ RLe(current_bounds[3], current_bounds[4])
            /\ {current_bounds[1], current_bounds[2]} = {p1[1], p2[1]}
            /\ {current_bounds[3], current_bounds[4]} = {p1[2], p2[2]}

\* a rectangle given from its lower right corner to its upper left corner
C23_Witness ==
    /\ LastOp = "zoom_rectangle"
    /\ LastCall.x1 > LastCall.x2
    /\ LastCall.y1 > LastCall.y2
    /\ ValidBounds(LastCall.before)
    /\ ValidBounds(current_bounds)

\* FractalRenderer2D.get_zoom_level on bounds b of a family with default bounds d
get_zoom_level(b, d) == RDiv(BoundsWidth(d), BoundsWidth(b))

\* the last two calls were pan(dx, dy) and then pan(-dx, -dy)
IsPanRoundTrip ==
    /\ Len(view_hist) = 2
    /\ view_hist[1].op = "pan" /\ view_hist[2].op = "pan"
    /\ view_hist[2].dx = -view_hist[1].dx
    /\ view_hist[2].dy = -view_hist[1].dy

\* C24: pan(dx, dy) adds dx / width * (xmax - xmin) to xmin and xmax and
\* dy / height * (ymax - ymin) to ymin and ymax, so the width and the height of the
\* bounds and the zoom level are unchanged; pan(dx, dy) followed by pan(-dx, -dy)
\* restores the bounds.
C24_PanTranslates ==
    /\ LastOp = "pan" =>
           LET c == LastCall
               b == c.before
               sx == RMul(R(c.dx, ViewWidth), RSub(b[2], b[1]))
               sy == RMul(R(c.dy, ViewHeight), RSub(b[4], b[3]))
           IN  /\ current_bounds[1] = RAdd(b[1], sx)
               /\ current_bounds[2] = RAdd(b[2], sx)
               /\ current_bounds[3] = RAdd(b[3], sy)
               /\ current_bounds[4] = RAdd(b[4], sy)
               /\ BoundsWidth(current_bounds) = BoundsWidth(b)
               /\ BoundsHeight(current_bounds) = BoundsHeight(b)
               /\ BoundsWidth(b) # RI(0) =>
                      get_zoom_level(current_bounds, view_default)
                          = get_zoom_level(b, view_default)
    /\ IsPanRoundTrip => current_bounds = view_hist[1].before

\* a pan by one pixel in each direction and back, on bounds of positive size
C24_Witness ==
    /\ IsPanRoundTrip
    /\ view_hist[1].dx # 0
    /\ view_hist[1].dy # 0
    /\ ValidBounds(view_hist[1].before)
    /\ current_bounds # view_hist[2].before

\* C25: after any sequence of viewport calls reset_view leaves current_bounds
\* equal to the family's default bounds, and the zoom level is 1.
C25_ResetRestoresDefault ==
    LastOp = "reset_view" =>
        /\ current_bounds = view_default
        /\ get_zoom_level(current_bounds, view_default) = RI(1)

\* a reset_view on bounds that a zoom, zoom_rectangle or pan call had changed
C25_Witness ==
    /\ LastOp = "reset_view"
    /\ LastCall.before # view_default
    /\ current_bounds = view_default

----------------------------------------------------------------------------
(* Chaos-game kernel: compute_sierpinski (the loop of IFSFractal.compute,  *)
(* compute_barnsley_fern and compute_dragon_curve is the same text).       *)
(* One action is one iteration of the loop.  The random transform choice   *)
(* is a nondeterministic choice; the running point is kept on the points   *)
(* the kernel can visit in its first iteration, so that the state space    *)
(* is finite: every transform is applied to the start point.               *)

\* canvas size handed to the kernel
IfsWidth == 3

IfsHeight == 3

\* budgets of the short runs, and the budget of the run with a burn-in
SmallBudget == 2

BigBudget == 100

\* skip = min(100, iterations // 100)
SkipCap == 100

SkipDivisor == 100

IfsStartX == R(1, 2)

IfsStartY == R(1, 2)

\* bounds that enclose every visited point (the second with a point on xmax),
\* and bounds that leave points outside the canvas on each side
IfsEnclosing == {SierpinskiDefaultBounds, <<RI(0), R(3, 4), RI(0), RI(1)>>}

IfsCropping == {<<R(3, 8), R(11, 8), RI(0), RI(1)>>, <<RI(0), R(5, 8), R(3, 8), R(1, 2)>>,
                <<R(1, 2), RI(1), RI(0), RI(1)>>}

IfsRuns ==
    {[iterations |-> m, bounds |-> b] : m \in 1 .. SmallBudget, b \in IfsEnclosing \cup IfsCropping}
    \cup {[iterations |-> BigBudget, bounds |-> SierpinskiDefaultBounds]}

IntMin(a, b) == IF a <= b THEN a ELSE b

skip(iterations) == IntMin(SkipCap, iterations \div SkipDivisor)

\* a loop that takes the burn-in out of the budget: range(iterations)
LoopCountWithinBudget(iterations) == iterations

\* number of iterations of the loop: range(iterations + skip)
LoopCount(iterations) == iterations + skip(iterations)

sierpinski_transform(choice, x, y) ==
    IF choice = 0 THEN <<RMul(R(1, 2), x), RMul(R(1, 2), y)>>
    ELSE IF choice = 1 THEN <<RAdd(RMul(R(1, 2), x), R(1, 2)), RMul(R(1, 2), y)>>
    ELSE <<RAdd(RMul(R(1, 2), x), R(1, 4)), RAdd(RMul(R(1, 2), y), R(433, 1000))>>

\* fractional pixel coordinates of a point
IfsFx(b, x) == RMul(RDiv(RSub(x, b[1]), RSub(b[2], b[1])), RI(IfsWidth - 1))

IfsFy(b, y) == RMul(RDiv(RSub(y, b[3]), RSub(b[4], b[3])), RI(IfsHeight - 1))

\* the increments one accumulated point makes, in the order of the code's
\* += statements: a sequence of <<row, column, weight>>
Splat(b, x, y) ==
    LET fx == IfsFx(b, x)
        fy == IfsFy(b, y)
        px == RInt(fx)
        py == RInt(fy)
        dx == RSub(fx, RI(px))
        dy == RSub(fy, RI(py))
        w00 == RMul(RSub(RI(1), dx), RSub(RI(1), dy))
        w10 == RMul(dx, RSub(RI(1), dy))
        w01 == RMul(RSub(RI(1), dx), dy)
        w11 == RMul(dx, dy)
    IN  IF 0 <= px /\ px < IfsWidth - 1 /\ 0 <= py /\ py < IfsHeight - 1
        THEN <<<<IfsHeight - 1 - py, px, w00>>, <<IfsHeight - 1 - py, px + 1, w10>>,
               <<IfsHeight - 1 - (py + 1), px, w01>>, <<IfsHeight - 1 - (py + 1), px + 1, w11>>>>
        ELSE IF 0 <= px /\ px < IfsWidth /\ 0 <= py /\ py < IfsHeight
        THEN <<<<IfsHeight - 1 - py, px, RI(1)>>>>
        ELSE <<>>

IfsCells == (0 .. IfsHeight - 1) \X (0 .. IfsWidth - 1)

\* result[row, column] += weight, for the increments from the k-th on
RECURSIVE Accumulate(_, _, _)
Accumulate(result, splat, k) ==
    IF k > Len(splat) THEN result
    ELSE Accumulate([result EXCEPT ![<<splat[k][1], splat[k][2]>>] = RAdd(@, splat[k][3])],
                    splat, k + 1)

\* the point each transform choice leads to, and its increments under each bounds
IfsPoint == [choice \in 0 .. 2 |-> sierpinski_transform(choice, IfsStartX, IfsStartY)]

IfsSplat ==
    [b \in IfsEnclosing \cup IfsCropping |->
        [choice \in 0 .. 2 |-> Splat(b, IfsPoint[choice][1], IfsPoint[choice][2])]]

IfsInit ==
    /\ ifs_args \in IfsRuns
    /\ ifs_x = IfsStartX
    /\ ifs_y = IfsStartY
    /\ ifs_i = 0
    /\ ifs_result = [cell \in IfsCells |-> RI(0)]
    /\ ifs_pc = "loop"

\* one iteration that only moves the point
IfsBurnIn ==
    /\ ifs_pc = "loop"
    /\ ifs_i < LoopCount(ifs_args.iterations)
    /\ ifs_i < skip(ifs_args.iterations)
    /\ \E choice \in 0 .. 2 :
          /\ ifs_x' = IfsPoint[choice][1]
          /\ ifs_y' = IfsPoint[choice][2]
    /\ ifs_i' = ifs_i + 1
    /\ UNCHANGED <<ifs_args, ifs_result, ifs_pc>>
    /\ UNCHANGED <<view_vars, sp_vars, bc_vars, esc_vars, rd_vars, cm_vars, pal_vars, ui_vars, col_vars, det_vars, ship_vars, ag_vars, co_vars>>

\* one iteration that moves the point and accumulates it
IfsAccumulate ==
    /\ ifs_pc = "loop"
    /\ ifs_i < LoopCount(ifs_args.iterations)
    /\ ifs_i >= skip(ifs_args.iterations)
    /\ \E choice \in 0 .. 2 :
          /\ ifs_x' = IfsPoint[choice][1]
          /\ ifs_y' = IfsPoint[choice][2]
          /\ ifs_result' = Accumulate(ifs_result, IfsSplat[ifs_args.bounds][choice], 1)
    /\ ifs_i' = ifs_i + 1
    /\ UNCHANGED <<ifs_args, ifs_pc>>
    /\ UNCHANGED <<view_vars, sp_vars, bc_vars, esc_vars, rd_vars, cm_vars, pal_vars, ui_vars, col_vars, det_vars, ship_vars, ag_vars, co_vars>>

\* the loop is over: the field is handed to the log1p/normalize step
IfsLoopEnd ==
    /\ ifs_pc = "loop"
    /\ ifs_i >= LoopCount(ifs_args.iterations)
    /\ ifs_pc' = "done"
    /\ UNCHANGED <<ifs_args, ifs_x, ifs_y, ifs_i, ifs_result>>
    /\ UNCHANGED <<view_vars, sp_vars, bc_vars, esc_vars, rd_vars, cm_vars, pal_vars, ui_vars, col_vars, det_vars, ship_vars, ag_vars, co_vars>>

IfsIdle ==
    /\ ifs_args = [iterations |-> 0, bounds |-> SierpinskiDefaultBounds]
    /\ ifs_x = IfsStartX
    /\ ifs_y = IfsStartY
    /\ ifs_i = 0
    /\ ifs_result = <<>>
    /\ ifs_pc = "idle"

IfsNext == IfsBurnIn \/ IfsAccumulate \/ IfsLoopEnd

\* weight held by the first k cells of a row
RECURSIVE SumRow(_, _, _)
SumRow(result, row, k) ==
    IF k = 0 THEN RI(0)
    ELSE RAdd(result[<<row, k - 1>>], SumRow(result, row, k - 1))

\* weight held by the first k rows
RECURSIVE SumRows(_, _)
SumRows(result, k) ==
    IF k = 0 THEN RI(0)
    ELSE RAdd(SumRow(result, k - 1, IfsWidth), SumRows(result, k - 1))

\* total weight held by the field
FieldTotal(result) == SumRows(result, IfsHeight)

\* the bounds enclose every point the kernel visits
Encloses(b) ==
    \A choice \in 0 .. 2 :
        /\ RLe(b[1], IfsPoint[choice][1]) /\ RLe(IfsPoint[choice][1], b[2])
        /\ RLe(b[3], IfsPoint[choice][2]) /\ RLe(IfsPoint[choice][2], b[4])

\* the point maps outside the canvas: fx < 0, fy < 0, fx > width-1 or fy > height-1
OutsideCanvas(b, x, y) ==
    \/ RLt(IfsFx(b, x), RI(0))
    \/ RLt(IfsFy(b, y), RI(0))
    \/ RLt(RI(IfsWidth - 1), IfsFx(b, x))
    \/ RLt(RI(IfsHeight - 1), IfsFy(b, y))

IntMax(a, b) == IF a >= b THEN a ELSE b

C4_OutsideIsNoOp ==
    [][/\ (ifs_i' = ifs_i + 1 /\ OutsideCanvas(ifs_args.bounds, ifs_x', ifs_y')) =>
             ifs_result' = ifs_result
       /\ ifs_i' = ifs_i + 1 =>
             \A cell \in IfsCells : RLe(ifs_result[cell], ifs_result'[cell])]_vars

----------------------------------------------------------------------------
(* Analytic Sierpinski kernel: sierpinski_escape_time.  One action is one  *)
(* pixel of the (parallel, independent) pixel loop, taken row by row.      *)

\* canvas size handed to the kernel
SierpWidth == 4

SierpHeight == 4

\* largest max_iter of a run
SierpMaxIter == 3

UnitSquare == <<RI(0), RI(1), RI(0), RI(1)>>

SierpBounds == {UnitSquare, <<R(-1, 2), R(3, 2), R(-1, 2), R(3, 2)>>, SierpinskiDefaultBounds}

RECURSIVE Pow2(_)
Pow2(n) == IF n = 0 THEN 1 ELSE 2 * Pow2(n - 1)

\* a & b for a, b >= 0
RECURSIVE BitAnd(_, _)
BitAnd(a, b) ==
    IF a = 0 \/ b = 0 THEN 0
    ELSE (a % 2) * (b % 2) + 2 * BitAnd(a \div 2, b \div 2)

\* the loop over i in range(max_iter), from iteration i with temp_x, temp_y
RECURSIVE SierpLoop(_, _, _, _)
SierpLoop(temp_x, temp_y, i, max_iter) ==
    IF i >= max_iter THEN max_iter
    ELSE IF BitAnd(temp_x, temp_y) # 0 THEN i
    ELSE SierpLoop(temp_x \div 2, temp_y \div 2, i + 1, max_iter)

SierpX(b, px) == RAdd(b[1], RMul(RI(px), RDiv(RSub(b[2], b[1]), RI(SierpWidth))))

SierpY(b, py) == RAdd(b[3], RMul(RI(py), RDiv(RSub(b[4], b[3]), RI(SierpHeight))))

\* the value sierpinski_escape_time stores in result[py, px]
sierpinski_escape_time(b, px, py, max_iter) ==
    LET x == SierpX(b, px)
        y == SierpY(b, py)
        scale == Pow2(max_iter)
        ix == RInt(RMul(x, RI(scale)))
        iy == RInt(RMul(y, RI(scale)))
    IN  IF RLt(x, RI(0)) \/ RLt(y, RI(0)) \/ RLt(RI(1), x) \/ RLt(RI(1), y)
        THEN RI(0)
        ELSE R(SierpLoop(ix, iy, 0, max_iter), max_iter)

SierpInit ==
    /\ sp_args \in [bounds : SierpBounds, max_iter : 1 .. SierpMaxIter]
    /\ sp_result = <<>>

\* the pixel the next cell of sp_result belongs to
SierpPx(k) == (k - 1) % SierpWidth

SierpPy(k) == (k - 1) \div SierpWidth

SierpPixel ==
    /\ Len(sp_result) < SierpWidth * SierpHeight
    /\ LET k == Len(sp_result) + 1
       IN  sp_result' = Append(sp_result,
               sierpinski_escape_time(sp_args.bounds, SierpPx(k), SierpPy(k), sp_args.max_iter))
    /\ UNCHANGED sp_args
    /\ UNCHANGED <<view_vars, ifs_vars, bc_vars, esc_vars, rd_vars, cm_vars, pal_vars, ui_vars, col_vars, det_vars, ship_vars, ag_vars, co_vars>>

SierpIdle ==
    /\ sp_args = [bounds |-> UnitSquare, max_iter |-> 0]
    /\ sp_result = <<>>

SierpNext == SierpPixel

Bit(n, i) == (n \div Pow2(i)) % 2

\* the value C5 describes for integers ix, iy: i/N for the smallest i in 0..N-1
\* with bit i set in both, 1 if there is none
FirstSharedBitValue(ix, iy, N) ==
    IF \E i \in 0 .. N - 1 : Bit(ix, i) = 1 /\ Bit(iy, i) = 1
    THEN R(CHOOSE i \in 0 .. N - 1 :
               /\ Bit(ix, i) = 1 /\ Bit(iy, i) = 1
               /\ \A j \in 0 .. i - 1 : ~(Bit(ix, j) = 1 /\ Bit(iy, j) = 1), N)
    ELSE RI(1)

\* C5 as stated: every cell inside the unit square holds i/N for the first shared
\* bit i of ix and iy (1 if none), every cell outside holds 0.
C5_FirstSharedBit ==
    \A k \in 1 .. Len(sp_result) :
        LET x == SierpX(sp_args.bounds, SierpPx(k))
            y == SierpY(sp_args.bounds, SierpPy(k))
            N == sp_args.max_iter
        IN  IF RLt(x, RI(0)) \/ RLt(y, RI(0)) \/ RLt(RI(1), x) \/ RLt(RI(1), y)
            THEN sp_result[k] = RI(0)
            ELSE sp_result[k] = FirstSharedBitValue(RInt(RMul(x, RI(Pow2(N)))),
                                                    RInt(RMul(y, RI(Pow2(N)))), N)

----------------------------------------------------------------------------
(* The iteration budget each family's compute hands to its kernel, and     *)
(* the two adaptive policies.  log10 and ** 0.75 are modelled on the zoom  *)
(* levels where they are rational: powers of ten, and fourth powers.       *)

\* largest k with a zoom level 10^k, and largest t with a zoom level t^4
MaxDecades == 2

MaxRoot == 4

\* EscapeTimeFractal.adaptive_iterations: min(..., 2000)
EscapeCap == 2000

\* IFSFractal.adaptive_iterations_for_zoom: min(base_iterations * 10, 10000000)
IfsCapFactor == 10

IfsCap == 10000000

\* DeterministicSierpinskiTriangle.compute: min(..., 24)
DetSierpCap == 24

\* the iterations sierpinski_chaos_game_deterministic always runs
ChaosIterations == 1000000

EscapeFamilies == {"MandelbrotSet", "JuliaSet", "BurningShip"}

IfsFamilies == {"SierpinskiTriangle", "BarnsleyFern", "DragonCurve"}

Families ==
    EscapeFamilies \cup IfsFamilies
    \cup {"DeterministicSierpinskiTriangle", "DeterministicSierpinskiChaos"}

get_default_bounds(family) ==
    CASE family = "MandelbrotSet" -> MandelbrotDefaultBounds
      [] family = "JuliaSet" -> JuliaDefaultBounds
      [] family = "BurningShip" -> <<R(-5, 2), R(3, 2), RI(-2), RI(1)>>
      [] family = "SierpinskiTriangle" -> SierpinskiDefaultBounds
      [] family = "BarnsleyFern" -> <<RI(-3), RI(3), R(-1, 2), R(21, 2)>>
      [] family = "DragonCurve" -> <<R(-1, 2), R(3, 2), R(-3, 4), R(3, 4)>>
      [] family = "DeterministicSierpinskiTriangle" -> SierpinskiDefaultBounds
      [] family = "DeterministicSierpinskiChaos" -> SierpinskiDefaultBounds

\* self.max_iter / self.iterations as the constructors set them
InstanceBudget(family) ==
    CASE family \in EscapeFamilies -> 256
      [] family = "SierpinskiTriangle" -> 200000
      [] family = "BarnsleyFern" -> 1000000
      [] family = "DragonCurve" -> 500000
      [] family = "DeterministicSierpinskiTriangle" -> 16
      [] family = "DeterministicSierpinskiChaos" -> 0

\* params.get(key, default)
Get(params, key, default) == IF key \in DOMAIN params THEN params[key] ELSE default

RECURSIVE Pow10(_)
Pow10(n) == IF n = 0 THEN 1 ELSE 10 * Pow10(n - 1)

InLog10Domain(z) == \E k \in 0 .. MaxDecades : z = RI(Pow10(k))

\* np.log10 on the powers of ten
Log10(z) == RI(CHOOSE k \in 0 .. MaxDecades : z = RI(Pow10(k)))

\* int(np.log2(z)) for z >= 1
RECURSIVE IntLog2(_)
IntLog2(z) == IF RLt(z, RI(2)) THEN 0 ELSE 1 + IntLog2(RDiv(z, RI(2)))

Root4(n) == CHOOSE a \in 0 .. 2 * MaxRoot : a * a * a * a = n

\* z ** 0.75 on the fourth powers of rationals
Pow075(z) ==
    LET a == Root4(z[1])
        b == Root4(z[2])
    IN  R(a * a * a, b * b * b)

\* EscapeTimeFractal.adaptive_iterations with self.max_iter = max_iter
adaptive_iterations(max_iter, zoom_level) ==
    IntMin(RInt(RMul(RI(max_iter), RAdd(RI(1), Log10(RMax(RI(1), zoom_level))))), EscapeCap)

\* zoom_factor = max(1.0, zoom_level ** 0.75) without the max
ZoomFactorUnclamped(zoom_level) == Pow075(zoom_level)

ZoomFactor(zoom_level) == RMax(RI(1), Pow075(zoom_level))

adaptive_iterations_for_zoom(family, bounds, base_iterations) ==
    LET default_bounds == get_default_bounds(family)
        default_width == RSub(default_bounds[2], default_bounds[1])
        current_width == RSub(bounds[2], bounds[1])
        zoom_level == RDiv(default_width, current_width)
        zoom_factor == ZoomFactor(zoom_level)
        max_iterations == IntMin(base_iterations * IfsCapFactor, IfsCap)
        adjusted_iterations == RInt(RMul(RI(base_iterations), zoom_factor))
    IN  IntMin(adjusted_iterations, max_iterations)

\* MandelbrotSet.compute and BurningShip.compute with the adaptive branch always taken
EscapeComputeAlwaysAdaptive(family, bounds, params) ==
    adaptive_iterations(InstanceBudget(family), RDiv(RI(4), RSub(bounds[2], bounds[1])))

\* MandelbrotSet.compute and BurningShip.compute: the max_iter handed to the kernel
EscapeCompute(family, bounds, params) ==
    LET max_iter == Get(params, "budget", InstanceBudget(family))
        zoom_level == RDiv(RI(4), RSub(bounds[2], bounds[1]))
    IN  IF Get(params, "adaptive_iter", TRUE)
        THEN adaptive_iterations(InstanceBudget(family), zoom_level)
        ELSE max_iter

\* JuliaSet.compute: the max_iter handed to julia_kernel
JuliaCompute(family, bounds, params) == Get(params, "budget", InstanceBudget(family))

\* SierpinskiTriangle.compute, BarnsleyFern.compute, DragonCurve.compute:
\* the iterations handed to the kernel
IfsCompute(family, bounds, params) == Get(params, "budget", InstanceBudget(family))

\* DeterministicSierpinskiTriangle.compute: the max_iter handed to the kernel
DetSierpCompute(family, bounds, params) ==
    LET max_iter == Get(params, "budget", InstanceBudget(family))
        zoom_level == RDiv(R(6, 5), RSub(bounds[2], bounds[1]))
    IN  IF Get(params, "adaptive_iter", TRUE)
        THEN IntMin(max_iter + IntLog2(RMax(RI(1), zoom_level)), DetSierpCap)
        ELSE max_iter

\* DeterministicSierpinskiChaos.compute: the kernel takes no budget
ChaosCompute(family, bounds, params) == ChaosIterations

KernelBudget(family, bounds, params) ==
    CASE family \in {"MandelbrotSet", "BurningShip"} -> EscapeCompute(family, bounds, params)
      [] family = "JuliaSet" -> JuliaCompute(family, bounds, params)
      [] family \in IfsFamilies -> IfsCompute(family, bounds, params)
      [] family = "DeterministicSierpinskiTriangle" -> DetSierpCompute(family, bounds, params)
      [] family = "DeterministicSierpinskiChaos" -> ChaosCompute(family, bounds, params)

\* the default bounds scaled about their centre to zoom level z
ZoomedBounds(d, z) ==
    LET cx == RDiv(RAdd(d[1], d[2]), RI(2))
        cy == RDiv(RAdd(d[3], d[4]), RI(2))
        hw == RDiv(RSub(d[2], d[1]), RMul(RI(2), z))
        hh == RDiv(RSub(d[4], d[3]), RMul(RI(2), z))
    IN  <<RSub(cx, hw), RAdd(cx, hw), RSub(cy, hh), RAdd(cy, hh)>>

Decades == {RI(Pow10(k)) : k \in 0 .. MaxDecades}

\* the zoom levels (default width / current width) of the calls made to a family
ZoomLevels(family) ==
    CASE family \in EscapeFamilies ->
           \* 4.0 / width is 1/2 or a power of ten
           LET w == RSub(get_default_bounds(family)[2], get_default_bounds(family)[1])
           IN  {RMul(RDiv(w, RI(4)), c) : c \in Decades \cup {R(1, 2)}}
      [] family \in IfsFamilies ->
           {R(1, 16), R(81, 16)} \cup {RI(t * t * t * t) : t \in 1 .. MaxRoot}
      [] OTHER -> {R(1, 2), RI(1), RI(2), RI(3), RI(16)}

FamilyBounds(family) == {ZoomedBounds(get_default_bounds(family), z) : z \in ZoomLevels(family)}

CallerBudgets(family) ==
    CASE family \in EscapeFamilies -> {1, 100, 1000}
      [] family \in IfsFamilies -> {1, 1000, 200000, 10000000}
      [] OTHER -> {1, 8, 20}

\* the keyword arguments of a call: each of the two may be left out
ParamsOf(family) ==
    {[k \in {} |-> 0]}
    \cup {[k \in {"budget"} |-> b] : b \in CallerBudgets(family)}
    \cup {[k \in {"adaptive_iter"} |-> a] : a \in BOOLEAN}
    \cup {[k \in {"budget", "adaptive_iter"} |-> IF k = "budget" THEN b ELSE a] :
              b \in CallerBudgets(family), a \in BOOLEAN}

BudgetInit ==
    /\ bc_call = [method |-> "none"]
    /\ bc_budget = 0

BudgetIdle == BudgetInit

\* family.compute(width, height, bounds, **params), up to the kernel call
Compute ==
    \E family \in Families :
        \E bounds \in FamilyBounds(family), params \in ParamsOf(family) :
            /\ bc_call' = [method |-> "compute", family |-> family, bounds |-> bounds,
                           params |-> params]
            /\ bc_budget' = KernelBudget(family, bounds, params)
            /\ UNCHANGED <<view_vars, ifs_vars, sp_vars, esc_vars, rd_vars, cm_vars, pal_vars, ui_vars, col_vars, det_vars, ship_vars, ag_vars, co_vars>>

\* family.adaptive_iterations_for_zoom(bounds, base_iterations), called directly
AdaptiveIterationsForZoom ==
    \E family \in IfsFamilies :
        \E bounds \in FamilyBounds(family), base \in CallerBudgets(family) :
            /\ bc_call' = [method |-> "adaptive_iterations_for_zoom", family |-> family,
                           bounds |-> bounds, params |-> [k \in {"budget"} |-> base]]
            /\ bc_budget' = adaptive_iterations_for_zoom(family, bounds, base)
            /\ UNCHANGED <<view_vars, ifs_vars, sp_vars, esc_vars, rd_vars, cm_vars, pal_vars, ui_vars, col_vars, det_vars, ship_vars, ag_vars, co_vars>>

BudgetNext == Compute \/ AdaptiveIterationsForZoom

\* get_zoom_level: default width / current width
ReferenceZoom(family, bounds) ==
    RDiv(RSub(get_default_bounds(family)[2], get_default_bounds(family)[1]),
         RSub(bounds[2], bounds[1]))

\* the escape-time policy of the specification for a caller's base
EscapePolicy(base, zoom_level) ==
    IntMin(RInt(RMul(RI(base), RAdd(RI(1), Log10(RMax(RI(1), zoom_level))))), EscapeCap)

IsCompute == bc_call.method = "compute"

AdaptiveOn == Get(bc_call.params, "adaptive_iter", TRUE)

AdaptiveOff == ~Get(bc_call.params, "adaptive_iter", TRUE)

BudgetGiven == "budget" \in DOMAIN bc_call.params

\* C6 as stated: with adaptive_iter enabled MandelbrotSet.compute and
\* BurningShip.compute hand the kernel min(base * (1 + log10(max(1, zoom_level))), 2000)
\* for the caller's base and zoom_level = default width / current width.
C6_EscapeBudgetFromCaller ==
    (/\ IsCompute
     /\ bc_call.family \in {"MandelbrotSet", "BurningShip"}
     /\ AdaptiveOn
     /\ BudgetGiven
     /\ InLog10Domain(RMax(RI(1), ReferenceZoom(bc_call.family, bc_call.bounds))))
    => bc_budget = EscapePolicy(bc_call.params["budget"],
                                ReferenceZoom(bc_call.family, bc_call.bounds))

\* the budget the adaptive policy gives a family for (bounds, base)
PolicyBudget(family, bounds, base) ==
    IF family \in IfsFamilies THEN adaptive_iterations_for_zoom(family, bounds, base)
    ELSE EscapePolicy(base, ReferenceZoom(family, bounds))

PolicyCap(family, base) ==
    IF family \in IfsFamilies THEN IntMin(base * IfsCapFactor, IfsCap) ELSE EscapeCap

\* C7 as stated: JuliaSet and the three IFS families, called with adaptive_iter
\* enabled on bounds narrower than the default bounds, run the kernel with the
\* policy's budget, which exceeds the caller's base until the cap is reached and
\* differs from the budget used with adaptive_iter = False.
C7_EveryFamilyAdapts ==
    (/\ IsCompute
     /\ bc_call.family \in IfsFamilies \cup {"JuliaSet"}
     /\ AdaptiveOn
     /\ BudgetGiven
     /\ RLt(RI(1), ReferenceZoom(bc_call.family, bc_call.bounds))
     /\ bc_call.family = "JuliaSet" =>
            InLog10Domain(ReferenceZoom(bc_call.family, bc_call.bounds)))
    => LET base == bc_call.params["budget"]
           policy == PolicyBudget(bc_call.family, bc_call.bounds, base)
       IN  /\ bc_budget = policy
           /\ bc_budget > base \/ bc_budget = PolicyCap(bc_call.family, base)
           /\ policy # base =>
                 bc_budget # KernelBudget(bc_call.family, bc_call.bounds,
                                          [k \in {"budget", "adaptive_iter"} |->
                                              IF k = "budget" THEN base ELSE FALSE])

\* C8 (as amended): for every family that takes a budget (all but
\* DeterministicSierpinskiChaos) and every bounds, a compute call with
\* adaptive_iter = False hands the kernel exactly the budget the caller supplied.
C8_DisabledPassThrough ==
    (/\ IsCompute
     /\ bc_call.family # "DeterministicSierpinskiChaos"
     /\ AdaptiveOff
     /\ BudgetGiven)
    => bc_budget = bc_call.params["budget"]

\* MandelbrotSet on zoomed-in bounds, adaptive_iter = False, a budget other than
\* the instance default: the kernel got the caller's budget
C8_Witness ==
    /\ IsCompute
    /\ bc_call.family = "MandelbrotSet"
    /\ AdaptiveOff
    /\ BudgetGiven
    /\ RLt(RI(1), ReferenceZoom(bc_call.family, bc_call.bounds))
    /\ bc_call.params["budget"] # InstanceBudget(bc_call.family)
    /\ bc_budget = bc_call.params["budget"]

\* C8 as stated: the same for every family
C8_Original ==
    (IsCompute /\ AdaptiveOff /\ BudgetGiven) => bc_budget = bc_call.params["budget"]

IsPolicyCall == bc_call.method = "adaptive_iterations_for_zoom"

\* C9: adaptive_iterations_for_zoom(bounds, base) with valid bounds and
\* 0 < base <= 10,000,000 returns r with base <= r <= min(10*base, 10,000,000);
\* r = base when the current width is at least the default width; and r is never
\* below the value returned for wider bounds with the same base.
C9_IfsBudgetBounds ==
    (/\ IsPolicyCall
     /\ ValidBounds(bc_call.bounds)
     /\ 0 < bc_call.params["budget"]
     /\ bc_call.params["budget"] <= IfsCap)
    => LET base == bc_call.params["budget"]
           width == RSub(bc_call.bounds[2], bc_call.bounds[1])
       IN  /\ base <= bc_budget
           /\ bc_budget <= IntMin(IfsCapFactor * base, IfsCap)
           /\ RLe(ReferenceZoom(bc_call.family, bc_call.bounds), RI(1)) => bc_budget = base
           /\ \A wider \in FamilyBounds(bc_call.family) :
                 RLe(width, RSub(wider[2], wider[1])) =>
                     adaptive_iterations_for_zoom(bc_call.family, wider, base) <= bc_budget

\* a call on bounds narrower than the default whose result lies strictly between
\* the base and the cap
C9_Witness ==
    /\ IsPolicyCall
    /\ RLt(RI(1), ReferenceZoom(bc_call.family, bc_call.bounds))
    /\ bc_call.params["budget"] < bc_budget
    /\ bc_budget < IntMin(IfsCapFactor * bc_call.params["budget"], IfsCap)

----------------------------------------------------------------------------
(* Escape-time kernel: mandelbrot_kernel for one pixel of the (parallel,   *)
(* independent) pixel loop.  One action is one iteration of the inner      *)
(* loop.  The stored value is kept as a record: [escaped |-> FALSE, i |-> n, *)
(* mag2 |-> 0] is the number n, and [escaped |-> TRUE, i |-> i,            *)
(* mag2 |-> |z|^2] is the smooth value i + 1 - log2(log2(|z|)).            *)

\* canvas size handed to the kernel
EscWidth == 4

EscHeight == 4

\* largest max_iter of a run
EscMaxIter == 3

EscBounds == {<<RI(-2), RI(2), RI(-2), RI(2)>>, <<RI(-1), RI(1), RI(-1), RI(1)>>,
              JuliaDefaultBounds}

\* c = complex(x, y) of pixel (px, py)
PixelC(b, px, py) ==
    <<RAdd(b[1], RMul(RI(px), RDiv(RSub(b[2], b[1]), RI(EscWidth)))),
      RAdd(b[3], RMul(RI(py), RDiv(RSub(b[4], b[3]), RI(EscHeight))))>>

\* |z|^2
Mag2(z) == RAdd(RMul(z[1], z[1]), RMul(z[2], z[2]))

\* an escape test that also fires on the circle: abs(z) >= 2.0
EscapedOnCircle(z) == RLe(RI(4), Mag2(z))

\* abs(z) > 2.0
Escaped(z) == RLt(RI(4), Mag2(z))

\* z * z + c
MandelbrotMap(z, c) ==
    <<RAdd(RSub(RMul(z[1], z[1]), RMul(z[2], z[2])), c[1]),
      RAdd(RMul(RI(2), RMul(z[1], z[2])), c[2])>>

\* the value n stored as it is
Plain(n) == [escaped |-> FALSE, i |-> n, mag2 |-> RI(0)]

EscInit ==
    /\ esc_args \in [bounds : EscBounds, max_iter : 1 .. EscMaxIter,
                      px : 0 .. EscWidth - 1, py : 0 .. EscHeight - 1]
    /\ esc_z = <<RI(0), RI(0)>>
    /\ esc_i = 0
    /\ esc_value = Plain(0)
    /\ esc_pc = "loop"

EscC == PixelC(esc_args.bounds, esc_args.px, esc_args.py)

\* the loop body when abs(z) > 2.0: store the smooth value and break
EscBreak ==
    /\ esc_pc = "loop"
    /\ esc_i < esc_args.max_iter
    /\ Escaped(esc_z)
    /\ esc_value' = [escaped |-> TRUE, i |-> esc_i, mag2 |-> Mag2(esc_z)]
    /\ esc_pc' = "done"
    /\ UNCHANGED <<esc_args, esc_z, esc_i>>
    /\ UNCHANGED <<view_vars, ifs_vars, sp_vars, bc_vars, rd_vars, cm_vars, pal_vars, ui_vars, col_vars, det_vars, ship_vars, ag_vars, co_vars>>

\* the loop body otherwise: z = z * z + c
EscIterate ==
    /\ esc_pc = "loop"
    /\ esc_i < esc_args.max_iter
    /\ ~Escaped(esc_z)
    /\ esc_z' = MandelbrotMap(esc_z, EscC)
    /\ esc_i' = esc_i + 1
    /\ UNCHANGED <<esc_args, esc_value, esc_pc>>
    /\ UNCHANGED <<view_vars, ifs_vars, sp_vars, bc_vars, rd_vars, cm_vars, pal_vars, ui_vars, col_vars, det_vars, ship_vars, ag_vars, co_vars>>

\* the loop's else branch: result[py, px] = max_iter
EscElse ==
    /\ esc_pc = "loop"
    /\ esc_i >= esc_args.max_iter
    /\ esc_value' = Plain(esc_args.max_iter)
    /\ esc_pc' = "done"
    /\ UNCHANGED <<esc_args, esc_z, esc_i>>
    /\ UNCHANGED <<view_vars, ifs_vars, sp_vars, bc_vars, rd_vars, cm_vars, pal_vars, ui_vars, col_vars, det_vars, ship_vars, ag_vars, co_vars>>

EscIdle ==
    /\ esc_args = [bounds |-> MandelbrotDefaultBounds, max_iter |-> 0, px |-> 0, py |-> 0]
    /\ esc_z = <<RI(0), RI(0)>>
    /\ esc_i = 0
    /\ esc_value = Plain(0)
    /\ esc_pc = "idle"

EscNext == EscBreak \/ EscIterate \/ EscElse

\* the stored value is the number max_iter.  A smooth value i + 1 - log2(log2(|z|))
\* with i < max_iter is below i + 1 when |z| > 2 and is i + 1 when |z| = 2.
StoresBudget ==
    IF esc_value.escaped
    THEN esc_value.mag2 = RI(4) /\ esc_value.i + 1 = esc_args.max_iter
    ELSE esc_value.i = esc_args.max_iter

\* the iterates z_k .. z_{N-1} of z' = z^2 + c from z_k = z all have |z| <= 2
RECURSIVE StaysWithinRadius(_, _, _, _)
StaysWithinRadius(z, c, k, N) ==
    \/ k >= N
    \/ /\ RLe(Mag2(z), RI(4))
       /\ StaysWithinRadius(MandelbrotMap(z, c), c, k + 1, N)

\* C10: for every budget N >= 1 a pixel whose coordinate is (0,0), and more
\* generally a pixel whose iterates z_0 .. z_{N-1} all have magnitude <= 2, gets
\* the value N.
C10_InteriorGetsBudget ==
    esc_pc = "done" =>
        /\ EscC = <<RI(0), RI(0)>> => StoresBudget
        /\ StaysWithinRadius(<<RI(0), RI(0)>>, EscC, 0, esc_args.max_iter) =>
              StoresBudget

\* the pixel at (0,0), finished with a budget of at least 2
C10_Witness ==
    /\ esc_pc = "done"
    /\ EscC = <<RI(0), RI(0)>>
    /\ esc_args.max_iter >= 2
    /\ StoresBudget

----------------------------------------------------------------------------
(* FractalRenderer2D.render: the direct render and the progressive ladder. *)
(* A scalar field is kept by its shape and origin, [call, level, h, w]:    *)
(* the render call that computed it and the downsampling level it was      *)
(* computed at.  One action is a whole non-progressive render, or one      *)
(* level of _progressive_render.                                           *)

\* number of render calls in one run
MaxRenders == 2

\* self.progressive_levels
progressive_levels == <<8, 4, 2, 1>>

\* canvas sizes <<width, height>> of the renderer under test
CanvasSizes == {<<16, 8>>, <<9, 10>>, <<4, 8>>}

RenderFamilies == {"MandelbrotSet", "JuliaSet", "SierpinskiTriangle"}

\* bounds = None
NoBounds == <<>>

\* the bounds arguments of the render calls: None, the default bounds, bounds with
\* xmin = xmax, bounds with ymin = ymax, and bounds with xmin > xmax
RenderBounds(family) ==
    LET d == get_default_bounds(family)
    IN  {NoBounds, d, <<d[1], d[1], d[3], d[4]>>, <<d[1], d[2], d[3], d[3]>>,
         <<d[2], d[1], d[3], d[4]>>}

\* the **params of the render calls: max_iter / iterations and adaptive_iter
RenderParams ==
    {[k \in {} |-> 0]}
    \cup {[k \in {"budget"} |-> b] : b \in {0, 3}}
    \cup {[k \in {"adaptive_iter"} |-> FALSE]}
    \cup {[k \in {"budget", "adaptive_iter"} |-> IF k = "budget" THEN b ELSE FALSE] : b \in {0, 3}}

NoData == [call |-> 0, level |-> 0, h |-> 0, w |-> 0]

NoImage == [call |-> 0, shape |-> <<>>]

\* a compute call returns an array of shape (h, w), or raises: kernel tells whether
\* the kernel had been entered
Field(w, h) == [kind |-> "field", kernel |-> TRUE, h |-> h, w |-> w]

Raised(kernel) == [kind |-> "raised", kernel |-> kernel, h |-> 0, w |-> 0]

\* mandelbrot_kernel and julia_kernel: dx = (xmax - xmin) / width and
\* dy = (ymax - ymin) / height divide by zero on an empty canvas, which raises or
\* yields an empty array depending on the compiled error model
EscapeKernelResults(w, h) ==
    IF w = 0 \/ h = 0 THEN {Raised(TRUE), Field(w, h)} ELSE {Field(w, h)}

\* compute_sierpinski: result.max() raises on an empty array; an accumulated
\* point divides by xmax - xmin and ymax - ymin
IfsKernelResults(w, h, bounds, iterations) ==
    IF w = 0 \/ h = 0 THEN {Raised(TRUE)}
    ELSE IF iterations > 0 /\ (bounds[1] = bounds[2] \/ bounds[3] = bounds[4])
    THEN {Raised(TRUE), Field(w, h)}
    ELSE {Field(w, h)}

\* fractal.compute(w, h, bounds, **params): the ways the call can end
compute(family, w, h, bounds, params) ==
    CASE family = "MandelbrotSet" ->
           \* zoom_level = 4.0 / (xmax - xmin), computed whether or not adaptive_iter
           IF bounds[2] = bounds[1]
           THEN {Raised(FALSE)}
           ELSE EscapeKernelResults(w, h)
      [] family = "JuliaSet" -> EscapeKernelResults(w, h)
      [] family = "SierpinskiTriangle" ->
           IfsKernelResults(w, h, bounds, IfsCompute(family, bounds, params))

\* int(round(p)) for p >= 0
RRound(p) == RInt(RAdd(p, R(1, 2)))

\* _upscale: ndimage.zoom(data, (target_height / h, target_width / w)) has the shape
\* (round(h * scale_y), round(w * scale_x))
UpscaledShape(h, w, target_width, target_height) ==
    <<RRound(RMul(RI(h), R(target_height, h))), RRound(RMul(RI(w), R(target_width, w)))>>

\* the bounds a render call works on
RenderOn(bounds) == IF bounds # NoBounds THEN bounds ELSE current_bounds

\* no save_image call yet
NoSave == [call |-> 0, high_res |-> FALSE, outcome |-> "none", size |-> <<0, 0>>]

RenderInit ==
    /\ rd_family \in RenderFamilies
    /\ rd_size \in CanvasSizes
    /\ view_default = get_default_bounds(rd_family)
    /\ current_bounds = view_default
    /\ view_hist = <<>>
    /\ view_ops = 0
    /\ current_data = NoData
    /\ cache_hits = 0
    /\ cache_misses = 0
    /\ rd_call = [id |-> 0, bounds |-> NoBounds, progressive |-> FALSE, params |-> <<>>]
    /\ rd_pc = "idle"
    /\ rd_level = 0
    /\ rd_image = NoImage
    /\ rd_outcome = "none"
    /\ rd_done = 0
    /\ rd_returned = 0
    /\ rd_compute = [id |-> 0, w |-> 0, h |-> 0, bounds |-> NoBounds, params |-> <<>>,
                     result |-> Raised(FALSE)]
    /\ rd_computes = 0
    /\ rd_kept = NoData
    /\ rd_save = NoSave

RenderIdle ==
    /\ rd_family = "MandelbrotSet"
    /\ rd_size = <<16, 8>>
    /\ current_data = NoData
    /\ cache_hits = 0
    /\ cache_misses = 0
    /\ rd_call = [id |-> 0, bounds |-> NoBounds, progressive |-> FALSE, params |-> <<>>]
    /\ rd_pc = "idle"
    /\ rd_level = 0
    /\ rd_image = NoImage
    /\ rd_outcome = "none"
    /\ rd_done = 0
    /\ rd_returned = 0
    /\ rd_compute = [id |-> 0, w |-> 0, h |-> 0, bounds |-> NoBounds, params |-> <<>>,
                     result |-> Raised(FALSE)]
    /\ rd_computes = 0
    /\ rd_kept = NoData
    /\ rd_save = NoSave

\* render(bounds, progressive=False, **params)
RenderDirect ==
    /\ rd_pc = "idle"
    /\ rd_done < MaxRenders
    /\ \E bounds \in RenderBounds(rd_family), params \in RenderParams :
          \E result \in compute(rd_family, rd_size[1], rd_size[2], RenderOn(bounds), params) :
             LET data == [call |-> rd_done + 1, level |-> 1, h |-> result.h, w |-> result.w]
             IN  /\ current_bounds' = RenderOn(bounds)
                 /\ rd_call' = [id |-> rd_done + 1, bounds |-> bounds, progressive |-> FALSE,
                                params |-> params]
                 /\ rd_compute' = [id |-> rd_computes + 1, w |-> rd_size[1], h |-> rd_size[2],
                                   bounds |-> RenderOn(bounds), params |-> params,
                                   result |-> result]
                 /\ rd_computes' = rd_computes + 1
                 /\ IF result.kind = "field"
                    THEN /\ current_data' = data
                         /\ rd_image' = [call |-> rd_done + 1, shape |-> <<data.h, data.w, 3>>]
                         /\ rd_outcome' = "returned"
                         /\ rd_returned' = rd_returned + 1
                         /\ rd_kept' = data
                    ELSE /\ rd_outcome' = "raised"
                         /\ UNCHANGED <<current_data, rd_image, rd_returned, rd_kept>>
    /\ rd_done' = rd_done + 1
    /\ UNCHANGED <<rd_family, rd_size, cache_hits, cache_misses, rd_pc, rd_level, rd_save>>
    /\ UNCHANGED <<view_default, view_hist, view_ops>>
    /\ UNCHANGED <<ifs_vars, sp_vars, bc_vars, esc_vars, cm_vars, pal_vars, ui_vars, col_vars, det_vars, ship_vars, ag_vars, co_vars>>

\* render(bounds, progressive=True, **params), up to the first level of the ladder
RenderProgressive ==
    /\ rd_pc = "idle"
    /\ rd_done < MaxRenders
    /\ \E bounds \in RenderBounds(rd_family), params \in RenderParams :
          /\ current_bounds' = RenderOn(bounds)
          /\ rd_call' = [id |-> rd_done + 1, bounds |-> bounds, progressive |-> TRUE,
                         params |-> params]
    /\ rd_pc' = "ladder"
    /\ rd_level' = 1
    /\ UNCHANGED <<rd_family, rd_size, current_data, cache_hits, cache_misses, rd_image,
                   rd_outcome, rd_done, rd_returned, rd_compute, rd_computes, rd_kept,
                   rd_save>>
    /\ UNCHANGED <<view_default, view_hist, view_ops>>
    /\ UNCHANGED <<ifs_vars, sp_vars, bc_vars, esc_vars, cm_vars, pal_vars, ui_vars, col_vars, det_vars, ship_vars, ag_vars, co_vars>>

\* one level of _progressive_render; the last level also returns
ProgressiveLevel ==
    /\ rd_pc = "ladder"
    /\ LET level == progressive_levels[rd_level]
           w == rd_size[1] \div level
           h == rd_size[2] \div level
       IN  \E result \in compute(rd_family, w, h, current_bounds, rd_call.params) :
              LET failed == \/ result.kind = "raised"
                            \/ level > 1 /\ (result.h = 0 \/ result.w = 0)
                  shape == IF level > 1 /\ ~failed
                           THEN UpscaledShape(result.h, result.w, rd_size[1], rd_size[2])
                           ELSE <<result.h, result.w>>
                  data == [call |-> rd_call.id, level |-> level, h |-> shape[1], w |-> shape[2]]
                  last == rd_level = Len(progressive_levels)
              IN  /\ rd_compute' = [id |-> rd_computes + 1, w |-> w, h |-> h,
                                    bounds |-> current_bounds, params |-> rd_call.params,
                                    result |-> result]
                  /\ rd_computes' = rd_computes + 1
                  /\ IF failed
                     THEN /\ rd_outcome' = "raised"
                          /\ rd_pc' = "idle"
                          /\ rd_done' = rd_done + 1
                          /\ UNCHANGED <<current_data, rd_image, rd_level, rd_returned, rd_kept>>
                     ELSE /\ current_data' = data
                          /\ rd_image' = [call |-> rd_call.id, shape |-> <<data.h, data.w, 3>>]
                          /\ IF last
                             THEN /\ rd_outcome' = "returned"
                                  /\ rd_pc' = "idle"
                                  /\ rd_done' = rd_done + 1
                                  /\ rd_returned' = rd_returned + 1
                                  /\ rd_kept' = data
                                  /\ UNCHANGED rd_level
                             ELSE /\ rd_level' = rd_level + 1
                                  /\ UNCHANGED <<rd_outcome, rd_pc, rd_done, rd_returned, rd_kept>>
    /\ UNCHANGED <<rd_family, rd_size, cache_hits, cache_misses, rd_call, rd_save>>
    /\ UNCHANGED view_vars
    /\ UNCHANGED <<ifs_vars, sp_vars, bc_vars, esc_vars, cm_vars, pal_vars, ui_vars, col_vars, det_vars, ship_vars, ag_vars, co_vars>>

\* how a save_image call ends: the render raised, the file write raised, or saved
SaveOutcome(rendered, written) ==
    IF ~rendered THEN "render raised" ELSE IF written THEN "saved" ELSE "write raised"

\* save_image: self.width, self.height after the call, size being the size the
\* render ran at; the assignment that restores them follows the render call and
\* is not reached when render raises
SaveSizeAfter(size, rendered) == IF rendered THEN rd_size ELSE size

\* save_image(filename, image=None, high_res): render(progressive=False) at twice
\* the width and height when high_res, then Image.fromarray(...).save(filename)
RendererSaveImage ==
    /\ rd_pc = "idle"
    /\ rd_done < MaxRenders
    /\ \E high_res \in BOOLEAN, written \in BOOLEAN :
          LET size == IF high_res THEN <<2 * rd_size[1], 2 * rd_size[2]>> ELSE rd_size
          IN  \E result \in compute(rd_family, size[1], size[2], current_bounds, <<>>) :
                 LET data == [call |-> rd_done + 1, level |-> 1, h |-> result.h, w |-> result.w]
                     rendered == result.kind = "field"
                 IN  /\ rd_call' = [id |-> rd_done + 1, bounds |-> NoBounds,
                                    progressive |-> FALSE, params |-> <<>>]
                     /\ rd_compute' = [id |-> rd_computes + 1, w |-> size[1], h |-> size[2],
                                       bounds |-> current_bounds, params |-> <<>>,
                                       result |-> result]
                     /\ rd_computes' = rd_computes + 1
                     /\ rd_save' = [call |-> rd_done + 1, high_res |-> high_res,
                                    outcome |-> SaveOutcome(rendered, written),
                                    size |-> rd_size]
                     /\ rd_size' = SaveSizeAfter(size, rendered)
                     /\ IF rendered
                        THEN /\ current_data' = data
                             /\ rd_image' = [call |-> rd_done + 1, shape |-> <<data.h, data.w, 3>>]
                             /\ rd_outcome' = "returned"
                             /\ rd_returned' = rd_returned + 1
                             /\ rd_kept' = data
                        ELSE /\ rd_outcome' = "raised"
                             /\ UNCHANGED <<current_data, rd_image, rd_returned, rd_kept>>
    /\ rd_done' = rd_done + 1
    /\ UNCHANGED <<rd_family, cache_hits, cache_misses, rd_pc, rd_level>>
    /\ UNCHANGED view_vars
    /\ UNCHANGED <<ifs_vars, sp_vars, bc_vars, esc_vars, cm_vars, pal_vars, ui_vars, col_vars, det_vars, ship_vars, ag_vars, co_vars>>

RenderNext == RenderDirect \/ RenderProgressive \/ ProgressiveLevel \/ RendererSaveImage

\* the budget the family's compute hands to its kernel is not positive; with
\* adaptive_iter MandelbrotSet hands over adaptive_iterations(zoom_level), which is
\* at least self.max_iter = 256
BudgetNotPositive(family, bounds, params) ==
    CASE family = "MandelbrotSet" ->
           /\ ~Get(params, "adaptive_iter", TRUE)
           /\ EscapeCompute(family, bounds, params) <= 0
      [] family = "JuliaSet" -> JuliaCompute(family, bounds, params) <= 0
      [] family = "SierpinskiTriangle" -> IfsCompute(family, bounds, params) <= 0

\* C12 as stated: a compute call on bounds with xmin >= xmax or ymin >= ymax
\* (reversed bounds included) is rejected with an error before any kernel
\* iteration, and the render it belongs to never returns a field or an image.
C12_DegenerateBoundsRejected ==
    /\ (rd_compute.id > 0 /\ ~ValidBounds(rd_compute.bounds)) =>
           (rd_compute.result.kind = "raised" /\ ~rd_compute.result.kernel)
    /\ (rd_call.id > 0 /\ rd_pc = "idle" /\ ~ValidBounds(current_bounds)) =>
           rd_outcome = "raised"

\* C13 as stated: a compute call whose effective budget is not positive (JuliaSet
\* with max_iter = 0, an IFS family with iterations = 0) is rejected with an error
\* before any computation.
C13_NonPositiveBudgetRejected ==
    (/\ rd_compute.id > 0
     /\ ValidBounds(rd_compute.bounds)
     /\ BudgetNotPositive(rd_family, rd_compute.bounds, rd_compute.params)) =>
        (rd_compute.result.kind = "raised" /\ ~rd_compute.result.kernel)

\* C14 as stated: for every width > 0 and height > 0, sizes below 8 and sizes not
\* divisible by 8 included, a progressive render completes without an error and
\* the image of every ladder level has the shape (height, width, 3).
C14_ProgressiveAnySize ==
    (rd_call.id > 0 /\ rd_call.progressive /\ ValidBounds(current_bounds)) =>
        /\ rd_pc = "idle" => rd_outcome = "returned"
        /\ rd_image.call = rd_call.id => rd_image.shape = <<rd_size[2], rd_size[1], 3>>

\* C15 as stated: current_data is replaced only when a render's full-resolution
\* computation completes; during the ladder levels of a progressive render and
\* after a failed render it still holds the previous full-resolution field.
C15_DataNeverTorn ==
    /\ current_data = rd_kept
    /\ current_data.level \in {0, 1}

\* C17 as stated: every render records a cache hit or a cache miss, so after n
\* completed renders cache_hits + cache_misses = n.
C17_HitsPlusMisses ==
    rd_pc = "idle" => cache_hits + cache_misses = rd_returned

\* C30 as stated: after save_image(filename, high_res=True) has returned or raised,
\* in the render or in the file write, the renderer's width and height are what
\* they were before the call, and a later render computes at that size.
C30_SaveKeepsResolution ==
    (rd_save.outcome # "none" /\ rd_save.high_res /\ rd_pc = "idle") =>
        /\ rd_size = rd_save.size
        /\ (rd_call.id > rd_save.call /\ ~rd_call.progressive) =>
               (rd_compute.w = rd_save.size[1] /\ rd_compute.h = rd_save.size[2])

----------------------------------------------------------------------------
(* ColorMapper: the palette enumeration and cycle_palette.                 *)

\* number of cycle_palette calls in one run
MaxCycleCalls == 10

\* list(self.PALETTES.keys())
PALETTES ==
    <<"classic", "fire", "ocean", "twilight", "rainbow", "monochrome", "coolwarm",
      "fire_colorcet", "isolum">>

PaletteNames == {PALETTES[i] : i \in 1 .. Len(PALETTES)}

\* palettes.index(p), counted from 0
PaletteIndex(p) == (CHOOSE i \in 1 .. Len(PALETTES) : PALETTES[i] = p) - 1

\* cycle_palette stopping at the ends of the enumeration instead of wrapping
NextPaletteNoWrap(p, forward) ==
    LET current_idx == PaletteIndex(p)
        new_idx == IF forward
                   THEN IntMin(current_idx + 1, Len(PALETTES) - 1)
                   ELSE IntMax(current_idx - 1, 0)
    IN  PALETTES[new_idx + 1]

\* cycle_palette: the palette it selects
NextPalette(p, forward) ==
    LET current_idx == PaletteIndex(p)
        new_idx == IF forward
                   THEN (current_idx + 1) % Len(PALETTES)
                   ELSE (current_idx - 1) % Len(PALETTES)
    IN  PALETTES[new_idx + 1]

\* ColorMapper.__init__ defaults
ColorIdle ==
    /\ palette = "classic"
    /\ invert = FALSE

PaletteIdle ==
    /\ pal_start = "classic"
    /\ pal_calls = <<>>

\* a ColorMapper on any palette of the enumeration
PaletteInit ==
    /\ palette \in PaletteNames
    /\ invert = FALSE
    /\ pal_start = palette
    /\ pal_calls = <<>>

\* ColorMapper.cycle_palette(forward)
cycle_palette ==
    /\ Len(pal_calls) < MaxCycleCalls
    /\ \E forward \in BOOLEAN :
          /\ palette' = NextPalette(palette, forward)
          /\ pal_calls' = Append(pal_calls, [forward |-> forward, palette |-> palette'])
    /\ UNCHANGED <<invert, pal_start>>
    /\ UNCHANGED <<view_vars, ifs_vars, sp_vars, bc_vars, esc_vars, rd_vars, ui_vars, col_vars, det_vars, ship_vars, ag_vars, co_vars>>

PaletteNext == cycle_palette

\* the palette before the i-th cycle_palette call
PaletteBefore(i) == IF i = 1 THEN pal_start ELSE pal_calls[i - 1].palette

\* C20: cycle_palette is a cycle over PALETTES: any N successive forward calls
\* (N = number of palettes) end on the palette they started from and visit every
\* palette exactly once; forward wraps from the last palette to the first, backward
\* from the first to the last, and a forward call followed by a backward call
\* restores the palette.
C20_PaletteCycle ==
    LET N == Len(PALETTES)
        n == Len(pal_calls)
    IN  /\ \A i \in 1 .. n :
              (i + N - 1 <= n /\ \A j \in i .. i + N - 1 : pal_calls[j].forward) =>
                  /\ pal_calls[i + N - 1].palette = PaletteBefore(i)
                  /\ {pal_calls[j].palette : j \in i .. i + N - 1} = PaletteNames
        /\ \A i \in 1 .. n :
              (pal_calls[i].forward /\ PaletteBefore(i) = PALETTES[N]) =>
                  pal_calls[i].palette = PALETTES[1]
        /\ \A i \in 1 .. n :
              (~pal_calls[i].forward /\ PaletteBefore(i) = PALETTES[1]) =>
                  pal_calls[i].palette = PALETTES[N]
        /\ \A i \in 1 .. n - 1 :
              (pal_calls[i].forward /\ ~pal_calls[i + 1].forward) =>
                  pal_calls[i + 1].palette = PaletteBefore(i)
        /\ palette = PaletteBefore(n + 1)

\* N forward calls from the last palette of the enumeration, then a backward call
C20_Witness ==
    /\ pal_start = PALETTES[Len(PALETTES)]
    /\ Len(pal_calls) = Len(PALETTES) + 1
    /\ \A j \in 1 .. Len(PALETTES) : pal_calls[j].forward
    /\ ~pal_calls[Len(PALETTES) + 1].forward

----------------------------------------------------------------------------
(* ColorMapper.get_colors, and cycle_palette on any palette name.  A field *)
(* is [h, w, cells], its cells row by row.  The palettes' functions (sin,  *)
(* cos, sqrt, ** 1.5) are modelled on the values where they are rational:  *)
(* the integers, which is what a two-level field normalises to and what a  *)
(* constant field keeps.  NaN is the pair <<0, 0>>.                        *)

\* number of ColorMapper calls in one run
MaxColorCalls == 2

\* a palette name that is not a key of PALETTES
UnknownPalette == "plasma"

\* constant fields of value 0, 1 and 4, and fields of two levels
ColorFields ==
    {[h |-> 1, w |-> 2, cells |-> <<RI(a), RI(b)>>] : a \in {0, 1, 4}, b \in {0, 1, 4}}

NaN == <<0, 0>>

IsNaN(v) == v[2] = 0

\* np.clip(v, 0, 1): NaN stays NaN
Clip01(v) == IF IsNaN(v) THEN NaN ELSE RMax(RI(0), RMin(RI(1), v))

\* values.max() and values.min()
RECURSIVE FieldMax(_, _)
FieldMax(cells, k) ==
    IF k = 1 THEN cells[1] ELSE RMax(cells[k], FieldMax(cells, k - 1))

RECURSIVE FieldMin(_, _)
FieldMin(cells, k) ==
    IF k = 1 THEN cells[1] ELSE RMin(cells[k], FieldMin(cells, k - 1))

\* get_colors up to the palette: normalisation when max > min, then inversion
Prepared(cells, inv) ==
    LET hi == FieldMax(cells, Len(cells))
        lo == FieldMin(cells, Len(cells))
        norm == IF RLt(lo, hi)
                THEN [k \in 1 .. Len(cells) |-> RDiv(RSub(cells[k], lo), RSub(hi, lo))]
                ELSE cells
    IN  IF inv THEN [k \in 1 .. Len(cells) |-> RSub(RI(1), norm[k])] ELSE norm

\* get_colors without the inversion step
PreparedNotInverted(cells, inv) == Prepared(cells, FALSE)

IsEven(n) == n % 2 = 0

\* np.sqrt(v) on the squares of integers; NaN below 0
Sqrt(v) ==
    IF RLt(v, RI(0)) THEN NaN
    ELSE RI(CHOOSE a \in 0 .. v[1] : a * a = v[1])

\* v ** 1.5 on the squares of integers; NaN below 0
Pow15(v) ==
    IF RLt(v, RI(0)) THEN NaN
    ELSE RMul(v, Sqrt(v))

\* _get_custom_palette(name, values) for one cell of integer value v, before the clip
CustomChannels(name, v) ==
    CASE name = "classic" ->
           \* sin(v pi) ** 2, sin(2 v pi) ** 2, cos(v pi / 2) ** 2
           <<RI(0), RI(0), IF IsEven(v[1]) THEN RI(1) ELSE RI(0)>>
      [] name = "fire" ->
           <<Clip01(RMul(v, RI(3))), Clip01(RSub(RMul(v, RI(3)), RI(1))),
             Clip01(RSub(RMul(v, RI(3)), RI(2)))>>
      [] name = "ocean" -> <<RMul(v, v), Pow15(v), Sqrt(v)>>
      [] name = "twilight" ->
           \* 0.5 + 0.5 sin(2 pi v), 0.5 + 0.5 sin(2 pi v - pi / 2), 0.5 + 0.5 sin(2 pi v + pi / 2)
           <<R(1, 2), RI(0), RI(1)>>
      [] name = "rainbow" ->
           \* _hsv_to_rgb(v, 1, 1): h = 6 v, f = 0, sector (6 v) % 6 = 0: (v, t, p) = (1, 0, 0)
           <<RI(1), RI(0), RI(0)>>
      [] name = "monochrome" -> <<v, v, v>>
      [] OTHER -> <<RI(0), RI(0), RI(0)>>

\* _get_custom_palette(name, values) for one cell
CustomColor(name, v) ==
    LET c == CustomChannels(name, v)
    IN  <<Clip01(c[1]), Clip01(c[2]), Clip01(c[3])>>

\* entries of a colorcet colour table
CmapLen == 256

\* a colour table entry, int(hex, 16) / 255.0 per channel; the tables are data of
\* the colorcet package: a ramp stands in for them
CmapEntry(name, idx) == <<R(idx, 255), R((2 * idx) % 256, 255), R(255 - idx, 255)>>

\* _apply_colorcet(cmap, values) for one cell of integer value v: the fraction
\* indices - floor(indices) is 0, both indices are clipped into the table
ColorcetColor(name, v) ==
    LET indices == v[1] * (CmapLen - 1)
        idx == IntMax(0, IntMin(CmapLen - 1, indices))
    IN  CmapEntry(name, idx)

CustomPalettes == {"classic", "fire", "ocean", "twilight", "rainbow", "monochrome"}

\* get_colors: the colour of one prepared cell under self.palette
PaletteColor(name, v) ==
    IF name \in PaletteNames
    THEN IF name \in CustomPalettes THEN CustomColor(name, v) ELSE ColorcetColor(name, v)
    ELSE CustomColor("classic", v)

\* ColorMapper.get_colors(values): the image for palette name and invert flag inv
get_colors(field, name, inv) ==
    LET values == Prepared(field.cells, inv)
    IN  [shape |-> <<field.h, field.w, 3>>,
         pixels |-> [k \in 1 .. Len(values) |-> PaletteColor(name, values[k])]]

NoColorImage == [shape |-> <<>>, pixels |-> <<>>]

NoColorCall == [op |-> "none", known |-> TRUE, outcome |-> "none"]

\* a ColorMapper built on any palette name and invert flag, and a field to colour
ColorCallInit ==
    /\ palette \in PaletteNames \cup {UnknownPalette}
    /\ invert \in BOOLEAN
    /\ col_field \in ColorFields
    /\ col_image = NoColorImage
    /\ col_call = NoColorCall
    /\ col_ops = 0

ColorCallIdle ==
    /\ col_field = [h |-> 1, w |-> 2, cells |-> <<RI(0), RI(0)>>]
    /\ col_image = NoColorImage
    /\ col_call = NoColorCall
    /\ col_ops = 0

\* color_mapper.get_colors(values)
GetColors ==
    /\ col_ops < MaxColorCalls
    /\ col_image' = get_colors(col_field, palette, invert)
    /\ col_call' = [op |-> "get_colors", known |-> palette \in PaletteNames,
                    outcome |-> "returned"]
    /\ col_ops' = col_ops + 1
    /\ UNCHANGED <<col_field, cm_vars>>
    /\ UNCHANGED <<view_vars, ifs_vars, sp_vars, bc_vars, esc_vars, rd_vars, pal_vars, ui_vars, det_vars, ship_vars, ag_vars, co_vars>>

\* color_mapper.cycle_palette(forward): palettes.index(self.palette) raises
\* ValueError on a name that is not in the list
CyclePalette ==
    /\ col_ops < MaxColorCalls
    /\ \E forward \in BOOLEAN :
          IF palette \in PaletteNames
          THEN /\ palette' = NextPalette(palette, forward)
               /\ col_call' = [op |-> "cycle_palette", known |-> TRUE, outcome |-> "returned"]
          ELSE /\ col_call' = [op |-> "cycle_palette", known |-> FALSE, outcome |-> "raised"]
               /\ UNCHANGED palette
    /\ col_ops' = col_ops + 1
    /\ UNCHANGED <<invert, col_field, col_image>>
    /\ UNCHANGED <<view_vars, ifs_vars, sp_vars, bc_vars, esc_vars, rd_vars, pal_vars, ui_vars, det_vars, ship_vars, ag_vars, co_vars>>

ColorNext == GetColors \/ CyclePalette

\* C21 as stated: with a palette name that is not in PALETTES every ColorMapper
\* operation completes without raising, and get_colors returns the image the
\* 'classic' palette gives for the same field and invert flag.
C21_UnknownPaletteNeverFails ==
    (col_call.op # "none" /\ ~col_call.known) =>
        /\ col_call.outcome = "returned"
        /\ col_call.op = "get_colors" => col_image = get_colors(col_field, "classic", invert)

InUnit(v) == ~IsNaN(v) /\ RLe(RI(0), v) /\ RLe(v, RI(1))

\* C26 as stated: for every palette name, known or not, either invert flag and
\* every field, constant fields included, get_colors returns an image of shape
\* (height, width, 3) whose every channel value lies in [0, 1].
C26_ColoursInRange ==
    col_call.op = "get_colors" =>
        /\ col_image.shape = <<col_field.h, col_field.w, 3>>
        /\ Len(col_image.pixels) = col_field.h * col_field.w
        /\ \A k \in 1 .. Len(col_image.pixels), ch \in 1 .. 3 :
              InUnit(col_image.pixels[k][ch])

----------------------------------------------------------------------------
(* FractalExplorerWindow: the handlers behind the control panel and the    *)
(* canvas.  One action is one handler run to its end, _render_fractal and  *)
(* _update_display included where the handler calls them.  The handlers    *)
(* leave their trace in ui_event; the rd_ trace of direct render calls is  *)
(* left alone.                                                             *)

\* number of handlers run in one run
MaxUiOps == 3

\* self.fractals, the entries whose family is modelled
FractalNames == {"Mandelbrot Set", "Julia Set", "Sierpinski Triangle"}

FractalOf(name) ==
    CASE name = "Mandelbrot Set" -> "MandelbrotSet"
      [] name = "Julia Set" -> "JuliaSet"
      [] name = "Sierpinski Triangle" -> "SierpinskiTriangle"

\* <<self.canvas.width(), self.canvas.height()>>
CanvasSize == <<16, 8>>

\* the entries of ControlPanel.palette_combo
PaletteChoices == {PALETTES[i] : i \in 1 .. 7}

\* the parameter widgets' changes: <<name, value>>
ParameterChanges == {<<"budget", 10>>, <<"budget", 300>>, <<"c_real", 0>>}

NoParams == [k \in {} |-> 0]

NoCanvasImage == [data |-> NoData, palette |-> "none", invert |-> FALSE]

NoEvent ==
    [handler |-> "none", initializing |-> FALSE, render |-> "none", computes |-> 0,
     image_before |-> NoCanvasImage, status_before |-> "Ready"]

\* dict.update
Update(settings, params) ==
    [k \in DOMAIN settings \cup DOMAIN params |->
        IF k \in DOMAIN params THEN params[k] ELSE settings[k]]

\* ControlPanel.get_render_settings: the two check boxes and the family's
\* parameter widget at its default
get_render_settings(family) ==
    [k \in {"progressive", "adaptive_iter", "budget"} |->
        CASE k = "progressive" -> ui_progressive
          [] k = "adaptive_iter" -> ui_adaptive
          [] k = "budget" -> InstanceBudget(family)]

\* renderer.render(progressive=..., **settings): a key of settings that names a
\* keyword already given makes the call raise TypeError before render is entered
DuplicateKeyword(settings) == "progressive" \in DOMAIN settings

\* render(progressive=False, **params) run to its end:
\* how it ended, current_data afterwards, the compute calls made
DirectOutcomes(id, data, family, size, bounds, params) ==
    {IF result.kind = "field"
     THEN [outcome |-> "returned", computes |-> 1,
           data |-> [call |-> id, level |-> 1, h |-> result.h, w |-> result.w]]
     ELSE [outcome |-> "raised", computes |-> 1, data |-> data] :
         result \in compute(family, size[1], size[2], bounds, params)}

\* _progressive_render from the k-th level on, run to its end
RECURSIVE LadderOutcomes(_, _, _, _, _, _, _)
LadderOutcomes(k, id, data, family, size, bounds, params) ==
    IF k > Len(progressive_levels)
    THEN {[outcome |-> "returned", computes |-> k - 1, data |-> data]}
    ELSE LET level == progressive_levels[k]
             w == size[1] \div level
             h == size[2] \div level
         IN  UNION {
                 IF \/ result.kind = "raised"
                    \/ level > 1 /\ (result.h = 0 \/ result.w = 0)
                 THEN {[outcome |-> "raised", computes |-> k, data |-> data]}
                 ELSE LET shape == IF level > 1
                                   THEN UpscaledShape(result.h, result.w, size[1], size[2])
                                   ELSE <<result.h, result.w>>
                      IN  LadderOutcomes(k + 1, id,
                              [call |-> id, level |-> level, h |-> shape[1], w |-> shape[2]],
                              family, size, bounds, params) :
                 result \in compute(family, w, h, bounds, params)}

\* _render_fractal on a window whose renderer, its family, size, bounds and current_data,
\* render_params and colour mapper are as given: the ways it can end
render_fractal(renderer, family, size, bounds, data, params, pal, inv) ==
    IF ~renderer
    THEN {[render |-> "none", computes |-> 0, data |-> data, image |-> canvas_image,
           status |-> ui_status, dialog |-> ui_dialog]}
    ELSE LET settings == Update(get_render_settings(family), params)
         IN  IF DuplicateKeyword(settings)
             THEN {[render |-> "type_error", computes |-> 0, data |-> data,
                    image |-> canvas_image, status |-> "Render failed",
                    dialog |-> "Render Error"]}
             ELSE {IF o.outcome = "returned"
                   THEN [render |-> "returned", computes |-> o.computes, data |-> o.data,
                         image |-> [data |-> o.data, palette |-> pal, invert |-> inv],
                         status |-> "Rendered", dialog |-> ui_dialog]
                   ELSE [render |-> "raised", computes |-> o.computes, data |-> o.data,
                         image |-> canvas_image, status |-> "Render failed",
                         dialog |-> "Render Error"] :
                       o \in IF settings["progressive"]
                             THEN LadderOutcomes(1, rd_done + 1, data, family, size,
                                                 bounds, settings)
                             ELSE DirectOutcomes(rd_done + 1, data, family, size,
                                                 bounds, settings)}

\* _update_display: the image on the canvas afterwards
update_display(pal, inv) ==
    IF ui_renderer /\ current_data # NoData
    THEN [data |-> current_data, palette |-> pal, invert |-> inv]
    ELSE canvas_image

\* what a handler that ended its _render_fractal call as r leaves behind
Rendered(handler, r) ==
    /\ current_data' = r.data
    /\ canvas_image' = r.image
    /\ ui_status' = r.status
    /\ ui_dialog' = r.dialog
    /\ rd_computes' = rd_computes + r.computes
    /\ rd_done' = rd_done + (IF r.render \in {"returned", "raised"} THEN 1 ELSE 0)
    /\ rd_returned' = rd_returned + (IF r.render = "returned" THEN 1 ELSE 0)
    /\ ui_event' = [handler |-> handler, initializing |-> ui_initializing,
                    render |-> r.render, computes |-> r.computes,
                    image_before |-> canvas_image, status_before |-> ui_status]
    /\ ui_ops' = ui_ops + 1

\* a handler that made no render call
NotRendered(handler) ==
    /\ ui_event' = [handler |-> handler, initializing |-> ui_initializing,
                    render |-> "none", computes |-> 0,
                    image_before |-> canvas_image, status_before |-> ui_status]
    /\ ui_ops' = ui_ops + 1

\* FractalExplorerWindow.__init__, before a fractal is selected
WindowInit ==
    /\ ui_renderer = FALSE
    /\ ui_initializing = FALSE
    /\ ui_progressive \in BOOLEAN
    /\ ui_adaptive \in BOOLEAN
    /\ render_params = NoParams
    /\ canvas_image = NoCanvasImage
    /\ ui_status = "Ready"
    /\ ui_dialog = "none"
    /\ ui_event = NoEvent
    /\ ui_ops = 0

WindowIdle ==
    /\ ui_renderer = FALSE
    /\ ui_initializing = FALSE
    /\ ui_progressive = TRUE
    /\ ui_adaptive = TRUE
    /\ render_params = NoParams
    /\ canvas_image = NoCanvasImage
    /\ ui_status = "Ready"
    /\ ui_dialog = "none"
    /\ ui_event = NoEvent
    /\ ui_ops = 0

\* _on_fractal_changed(name)
on_fractal_changed ==
    /\ ui_ops < MaxUiOps
    /\ \E name \in FractalNames :
          LET family == FractalOf(name)
          IN  /\ rd_family' = family
              /\ rd_size' = CanvasSize
              /\ view_default' = get_default_bounds(family)
              /\ current_bounds' = get_default_bounds(family)
              /\ \E r \in render_fractal(TRUE, family, CanvasSize, get_default_bounds(family),
                                         NoData,
                                         NoParams, "classic", FALSE) :
                    Rendered("_on_fractal_changed", r)
    /\ ui_renderer' = TRUE
    /\ cache_hits' = 0
    /\ cache_misses' = 0
    /\ palette' = "classic"
    /\ invert' = FALSE
    /\ render_params' = NoParams
    /\ UNCHANGED <<ui_initializing, ui_progressive, ui_adaptive>>
    /\ UNCHANGED <<rd_call, rd_pc, rd_level, rd_image, rd_outcome, rd_compute, rd_kept,
                   rd_save>>
    /\ UNCHANGED <<view_hist, view_ops, ifs_vars, sp_vars, bc_vars, esc_vars, pal_vars, col_vars, det_vars, ship_vars, ag_vars, co_vars>>

\* _on_parameter_changed('palette', value)
on_palette_changed ==
    /\ ui_ops < MaxUiOps
    /\ \E value \in PaletteChoices :
          IF ui_renderer
          THEN /\ palette' = value
               /\ canvas_image' = update_display(value, invert)
          ELSE UNCHANGED <<palette, canvas_image>>
    /\ NotRendered("palette")
    /\ UNCHANGED <<invert, ui_renderer, ui_initializing, ui_progressive, ui_adaptive,
                   render_params, ui_status, ui_dialog>>
    /\ UNCHANGED <<view_vars, ifs_vars, sp_vars, bc_vars, esc_vars, rd_vars, pal_vars, col_vars, det_vars, ship_vars, ag_vars, co_vars>>

\* _on_parameter_changed('invert_colors', value)
on_invert_changed ==
    /\ ui_ops < MaxUiOps
    /\ \E value \in BOOLEAN :
          IF ui_renderer
          THEN /\ invert' = value
               /\ canvas_image' = update_display(palette, value)
          ELSE UNCHANGED <<invert, canvas_image>>
    /\ NotRendered("invert_colors")
    /\ UNCHANGED <<palette, ui_renderer, ui_initializing, ui_progressive, ui_adaptive,
                   render_params, ui_status, ui_dialog>>
    /\ UNCHANGED <<view_vars, ifs_vars, sp_vars, bc_vars, esc_vars, rd_vars, pal_vars, col_vars, det_vars, ship_vars, ag_vars, co_vars>>

\* _on_parameter_changed('reset_view', True): _reset_view
on_reset_view ==
    /\ ui_ops < MaxUiOps
    /\ IF ui_renderer
       THEN /\ current_bounds' = view_default
            /\ \E r \in render_fractal(TRUE, rd_family, rd_size, view_default, current_data,
                                       render_params, palette, invert) :
                  Rendered("reset_view", r)
       ELSE /\ NotRendered("reset_view")
            /\ UNCHANGED <<current_bounds, current_data, canvas_image, ui_status, ui_dialog,
                           rd_computes, rd_done, rd_returned>>
    /\ UNCHANGED <<ui_renderer, ui_initializing, ui_progressive, ui_adaptive, render_params>>
    /\ UNCHANGED <<rd_family, rd_size, cache_hits, cache_misses>>
    /\ UNCHANGED <<rd_call, rd_pc, rd_level, rd_image, rd_outcome, rd_compute, rd_kept,
                   rd_save>>
    /\ UNCHANGED <<view_default, view_hist, view_ops>>
    /\ UNCHANGED <<ifs_vars, sp_vars, bc_vars, esc_vars, cm_vars, pal_vars, col_vars, det_vars, ship_vars, ag_vars, co_vars>>

\* _on_parameter_changed(name, value) for a parameter widget
on_parameter_changed ==
    /\ ui_ops < MaxUiOps
    /\ \E change \in ParameterChanges :
          LET name == change[1]
              params == Update(render_params, [k \in {name} |-> change[2]])
          IN  /\ render_params' = params
              /\ IF name \in {"c_real", "c_imag"}
                 THEN \E r \in render_fractal(ui_renderer, rd_family, rd_size, current_bounds,
                                              current_data, params, palette, invert) :
                         Rendered("parameter", r)
                 ELSE /\ NotRendered("parameter")
                      /\ UNCHANGED <<current_data, canvas_image, ui_status, ui_dialog,
                                     rd_computes, rd_done, rd_returned>>
    /\ UNCHANGED <<ui_renderer, ui_initializing, ui_progressive, ui_adaptive>>
    /\ UNCHANGED <<rd_family, rd_size, cache_hits, cache_misses>>
    /\ UNCHANGED <<rd_call, rd_pc, rd_level, rd_image, rd_outcome, rd_compute, rd_kept,
                   rd_save>>
    /\ UNCHANGED <<view_vars, ifs_vars, sp_vars, bc_vars, esc_vars, cm_vars, pal_vars, col_vars, det_vars, ship_vars, ag_vars, co_vars>>

\* render_requested of the control panel or the canvas: _render_fractal
render_requested ==
    /\ ui_ops < MaxUiOps
    /\ \E r \in render_fractal(ui_renderer, rd_family, rd_size, current_bounds,
                               current_data,
                               render_params, palette, invert) :
          Rendered("_render_fractal", r)
    /\ UNCHANGED <<ui_renderer, ui_initializing, ui_progressive, ui_adaptive, render_params>>
    /\ UNCHANGED <<rd_family, rd_size, cache_hits, cache_misses>>
    /\ UNCHANGED <<rd_call, rd_pc, rd_level, rd_image, rd_outcome, rd_compute, rd_kept,
                   rd_save>>
    /\ UNCHANGED <<view_vars, ifs_vars, sp_vars, bc_vars, esc_vars, cm_vars, pal_vars, col_vars, det_vars, ship_vars, ag_vars, co_vars>>

\* FractalCanvas.keyPressEvent, key C: cycle_palette, then render_requested
key_c ==
    /\ ui_ops < MaxUiOps
    /\ IF ui_renderer
       THEN /\ palette' = NextPalette(palette, TRUE)
            /\ \E r \in render_fractal(TRUE, rd_family, rd_size, current_bounds, current_data,
                                       render_params, palette', invert) :
                  Rendered("key_c", r)
       ELSE /\ NotRendered("key_c")
            /\ UNCHANGED <<palette, current_data, canvas_image, ui_status, ui_dialog,
                           rd_computes, rd_done, rd_returned>>
    /\ UNCHANGED <<invert, ui_renderer, ui_initializing, ui_progressive, ui_adaptive,
                   render_params>>
    /\ UNCHANGED <<rd_family, rd_size, cache_hits, cache_misses>>
    /\ UNCHANGED <<rd_call, rd_pc, rd_level, rd_image, rd_outcome, rd_compute, rd_kept,
                   rd_save>>
    /\ UNCHANGED <<view_vars, ifs_vars, sp_vars, bc_vars, esc_vars, pal_vars, col_vars, det_vars, ship_vars, ag_vars, co_vars>>

\* _save_image(filename) with a file name: renderer.save_image(filename, high_res),
\* which renders with progressive=False and no parameters
save_image ==
    /\ ui_ops < MaxUiOps
    /\ ui_renderer
    /\ \E high_res \in BOOLEAN, written \in BOOLEAN :
          LET size == IF high_res THEN <<2 * rd_size[1], 2 * rd_size[2]>> ELSE rd_size
          IN  \E o \in DirectOutcomes(rd_done + 1, current_data, rd_family, size,
                                      current_bounds, NoParams) :
                 /\ current_data' = o.data
                 /\ rd_computes' = rd_computes + o.computes
                 /\ rd_done' = rd_done + 1
                 /\ rd_save' = [call |-> rd_done + 1, high_res |-> high_res,
                                outcome |-> SaveOutcome(o.outcome = "returned", written),
                                size |-> rd_size]
                 /\ IF o.outcome = "returned"
                    THEN /\ rd_returned' = rd_returned + 1
                         /\ UNCHANGED rd_size
                         /\ IF written
                            THEN ui_status' = "Image saved" /\ UNCHANGED ui_dialog
                            ELSE ui_dialog' = "Save Error" /\ UNCHANGED ui_status
                    ELSE \* self.width, self.height are not restored when render raises
                         /\ rd_size' = size
                         /\ ui_dialog' = "Save Error"
                         /\ UNCHANGED <<rd_returned, ui_status>>
                 /\ ui_event' = [handler |-> "_save_image", initializing |-> ui_initializing,
                                 render |-> o.outcome, computes |-> o.computes,
                                 image_before |-> canvas_image, status_before |-> ui_status]
    /\ ui_ops' = ui_ops + 1
    /\ UNCHANGED <<ui_renderer, ui_initializing, ui_progressive, ui_adaptive, render_params,
                   canvas_image>>
    /\ UNCHANGED <<rd_family, cache_hits, cache_misses>>
    /\ UNCHANGED <<rd_call, rd_pc, rd_level, rd_image, rd_outcome, rd_compute, rd_kept>>
    /\ UNCHANGED <<view_vars, ifs_vars, sp_vars, bc_vars, esc_vars, cm_vars, pal_vars, col_vars, det_vars, ship_vars, ag_vars, co_vars>>

\* window._initializing = flag, assigned from outside the class
set_initializing ==
    /\ ui_ops < MaxUiOps
    /\ \E flag \in BOOLEAN : ui_initializing' = flag
    /\ ui_ops' = ui_ops + 1
    /\ UNCHANGED <<ui_renderer, ui_progressive, ui_adaptive, render_params, canvas_image,
                   ui_status, ui_dialog, ui_event>>
    /\ UNCHANGED <<view_vars, ifs_vars, sp_vars, bc_vars, esc_vars, rd_vars, cm_vars, pal_vars, col_vars, det_vars, ship_vars, ag_vars, co_vars>>

\* the progressive and adaptive check boxes of the control panel
set_render_options ==
    /\ ui_ops < MaxUiOps
    /\ \E progressive \in BOOLEAN, adaptive \in BOOLEAN :
          /\ ui_progressive' = progressive
          /\ ui_adaptive' = adaptive
    /\ ui_ops' = ui_ops + 1
    /\ UNCHANGED <<ui_renderer, ui_initializing, render_params, canvas_image, ui_status,
                   ui_dialog, ui_event>>
    /\ UNCHANGED <<view_vars, ifs_vars, sp_vars, bc_vars, esc_vars, rd_vars, cm_vars, pal_vars, col_vars, det_vars, ship_vars, ag_vars, co_vars>>

WindowNext ==
    \/ on_fractal_changed
    \/ on_palette_changed
    \/ on_invert_changed
    \/ on_reset_view
    \/ on_parameter_changed
    \/ render_requested
    \/ key_c
    \/ save_image
    \/ set_initializing
    \/ set_render_options

\* the handlers that change only the palette or the invert flag
PaletteHandlers == {"palette", "invert_colors", "key_c"}

\* C16 as stated: after a palette-only change (palette selector, invert check box,
\* canvas key C) on a window whose renderer holds a field, the canvas shows the
\* image of current_data under the new palette and invert flag, and the
\* fractal's compute has not been invoked.
C16_PaletteOnlyFromData ==
    (ui_event.handler \in PaletteHandlers /\ ui_renderer /\ current_data # NoData) =>
        /\ canvas_image = [data |-> current_data, palette |-> palette, invert |-> invert]
        /\ ui_event.computes = 0

\* C18 as stated: whenever _render_fractal has run with a renderer set, whatever the
\* control panel's settings and render_params, renderer.render received
\* 'progressive' once, the canvas image was updated and the request did not end
\* in 'Render failed' through a duplicate keyword argument.
C18_NoKeywordConflict ==
    (ui_event.handler = "_render_fractal" /\ ui_renderer) =>
        /\ ui_event.render # "type_error"
        /\ ui_event.render = "returned" => canvas_image.data = current_data

\* C19 as stated: a _render_fractal call made while _initializing is TRUE returns
\* early: no renderer.render call is made, the canvas image is unchanged and the
\* window is left as it was.
C19_DeferredWhileInitializing ==
    (ui_event.handler = "_render_fractal" /\ ui_event.initializing /\ ui_renderer) =>
        /\ ui_event.render = "none"
        /\ canvas_image = ui_event.image_before
        /\ ui_status = ui_event.status_before

----------------------------------------------------------------------------
(* The deterministic variants: sierpinski_chaos_game_deterministic, seeded *)
(* by DeterministicSierpinskiChaos.compute, and the analytic kernel.  The  *)
(* kernel's 1000000 iterations and 1000 settling iterations are scaled     *)
(* down; a 32-bit generator state is the pair <<high, low>> of its 16-bit  *)
(* halves.  hash() of a str is salted once per interpreter process.        *)

\* iterations of the seeded kernel's loop (1000000 in the code)
DetIterations == 5

\* iterations before the first accumulated point (1000 in the code)
DetSettle == 2

DetWidth == 4

DetHeight == 3

\* compute calls in one run of the model
MaxDetCalls == 3

\* interpreter processes in one run of the model
MaxDetRuns == 2

LcgMultiplier == 1664525

LcgIncrement == 1013904223

Half == 65536

\* the generator state of an integer below 2 ** 32
LcgState(n) == <<n \div Half, n % Half>>

\* (rng_state * 1664525 + 1013904223) % (2**32)
LcgNext(s) ==
    LET p == s[2] * (LcgMultiplier % Half)
        low == (p % Half) + (LcgIncrement % Half)
        high == (p \div Half) + s[1] * (LcgMultiplier % Half)
                + s[2] * (LcgMultiplier \div Half)
                + (LcgIncrement \div Half) + (low \div Half)
    IN  <<high % Half, low % Half>>

\* rng_state % 3, with 2 ** 16 % 3 = 1
LcgChoice(s) == (s[1] + s[2]) % 3

\* vertices[choice]
DetVertex(choice) ==
    CASE choice = 0 -> <<R(1, 2), R(433, 500)>>
      [] choice = 1 -> <<RI(0), RI(0)>>
      [] OTHER -> <<RI(1), RI(0)>>

\* the values hash(str(bounds)) % (2**31) takes in the modelled processes
DetSeeds == {42, 65537, 1000003}

DetChaosBounds == {<<R(-1, 10), R(11, 10), R(-1, 10), RI(1)>>, UnitSquare}

DetCell(px, py) == (DetHeight - 1 - py) * DetWidth + px + 1

\* the loop body from iteration i on: the counts after the last iteration
RECURSIVE ChaosLoop(_, _, _, _, _, _)
ChaosLoop(i, rng_state, x, y, result, b) ==
    IF i >= DetIterations THEN result
    ELSE LET rng == LcgNext(rng_state)
             target == DetVertex(LcgChoice(rng))
             nx == RMul(RAdd(x, target[1]), R(1, 2))
             ny == RMul(RAdd(y, target[2]), R(1, 2))
             px == RInt(RMul(RDiv(RSub(nx, b[1]), RSub(b[2], b[1])), RI(DetWidth - 1)))
             py == RInt(RMul(RDiv(RSub(ny, b[3]), RSub(b[4], b[3])), RI(DetHeight - 1)))
         IN  IF i < DetSettle
             THEN ChaosLoop(i + 1, rng, nx, ny, result, b)
             ELSE IF 0 <= px /\ px < DetWidth /\ 0 <= py /\ py < DetHeight
             THEN ChaosLoop(i + 1, rng, nx, ny,
                            [result EXCEPT ![DetCell(px, py)] = @ + 1], b)
             ELSE ChaosLoop(i + 1, rng, nx, ny, result, b)

RECURSIVE IntPow(_, _)
IntPow(a, n) == IF n = 0 THEN 1 ELSE a * IntPow(a, n - 1)

RECURSIVE CountMax(_, _)
CountMax(result, k) ==
    IF k = 0 THEN 0 ELSE IntMax(result[k], CountMax(result, k - 1))

\* log1p(c) / log1p(m) for counts 0 <= c <= m, m > 0, as a value that is equal
\* for two pairs of counts exactly when the quotients are: 0, 1, a fraction
\* <<p, q>> when (1 + c) ** q = (1 + m) ** p, and otherwise <<-(1 + c), 1 + m>>
\* (the counts of the model stay below 8, where no two such pairs have the
\* same quotient)
Log1pRatio(c, m) ==
    IF c = 0 THEN <<0, 1>>
    ELSE IF c = m THEN <<1, 1>>
    ELSE LET exps == {e \in (1 .. m) \X (1 .. m) :
                        IntPow(1 + c, e[2]) = IntPow(1 + m, e[1])}
         IN  IF exps # {}
             THEN LET e == CHOOSE e \in exps : \A f \in exps : e[2] <= f[2]
                  IN  <<e[1], e[2]>>
             ELSE <<-(1 + c), 1 + m>>

\* sierpinski_chaos_game_deterministic(width, height, bounds, seed)
sierpinski_chaos_game_deterministic(b, seed) ==
    LET zeros == [k \in 1 .. DetWidth * DetHeight |-> 0]
        result == ChaosLoop(0, LcgState(seed), R(1, 2), R(1, 2), zeros, b)
        top == CountMax(result, DetWidth * DetHeight)
    IN  IF top > 0
        THEN [k \in 1 .. DetWidth * DetHeight |-> Log1pRatio(result[k], top)]
        ELSE [k \in 1 .. DetWidth * DetHeight |-> <<0, 1>>]

\* the analytic kernel's field, row by row
AnalyticField(b, max_iter) ==
    [k \in 1 .. SierpWidth * SierpHeight |->
        sierpinski_escape_time(b, (k - 1) % SierpWidth, (k - 1) \div SierpWidth, max_iter)]

DetCalls ==
    {[family |-> "DeterministicSierpinskiChaos", bounds |-> b, max_iter |-> 0] :
        b \in DetChaosBounds}
    \cup {[family |-> "DeterministicSierpinskiTriangle", bounds |-> b, max_iter |-> n] :
        b \in {UnitSquare, SierpinskiDefaultBounds}, n \in {2, SierpMaxIter}}

\* a started interpreter: its str hash, reduced to the seeds of the bounds in use
DetInit ==
    /\ det_hash \in [DetChaosBounds -> DetSeeds]
    /\ det_run = 1
    /\ det_log = <<>>

DetIdle ==
    /\ det_hash = [b \in DetChaosBounds |-> 42]
    /\ det_run = 1
    /\ det_log = <<>>

\* DeterministicSierpinskiChaos.compute: seed = hash(str(bounds)) % (2**31)
ChaosDetCompute ==
    /\ Len(det_log) < MaxDetCalls
    /\ \E c \in DetCalls :
          /\ c.family = "DeterministicSierpinskiChaos"
          /\ det_log' = Append(det_log,
                 [family |-> c.family, w |-> DetWidth, h |-> DetHeight,
                  bounds |-> c.bounds, max_iter |-> c.max_iter, run |-> det_run,
                  field |-> sierpinski_chaos_game_deterministic(c.bounds,
                                                                det_hash[c.bounds])])
    /\ UNCHANGED <<det_hash, det_run>>
    /\ UNCHANGED <<view_vars, ifs_vars, sp_vars, bc_vars, esc_vars, rd_vars, cm_vars, pal_vars, ui_vars, col_vars, ship_vars, ag_vars, co_vars>>

\* the analytic kernel on the bounds and budget of the call
AnalyticCompute ==
    /\ Len(det_log) < MaxDetCalls
    /\ \E c \in DetCalls :
          /\ c.family = "DeterministicSierpinskiTriangle"
          /\ det_log' = Append(det_log,
                 [family |-> c.family, w |-> SierpWidth, h |-> SierpHeight,
                  bounds |-> c.bounds, max_iter |-> c.max_iter, run |-> det_run,
                  field |-> AnalyticField(c.bounds, c.max_iter)])
    /\ UNCHANGED <<det_hash, det_run>>
    /\ UNCHANGED <<view_vars, ifs_vars, sp_vars, bc_vars, esc_vars, rd_vars, cm_vars, pal_vars, ui_vars, col_vars, ship_vars, ag_vars, co_vars>>

\* the program is closed and started again: a new process, a new hash salt
NewProcess ==
    /\ det_run < MaxDetRuns
    /\ det_run' = det_run + 1
    /\ det_hash' \in [DetChaosBounds -> DetSeeds]
    /\ UNCHANGED det_log
    /\ UNCHANGED <<view_vars, ifs_vars, sp_vars, bc_vars, esc_vars, rd_vars, cm_vars, pal_vars, ui_vars, col_vars, ship_vars, ag_vars, co_vars>>

DetNext == ChaosDetCompute \/ AnalyticCompute \/ NewProcess

SameInputs(a, b) ==
    /\ a.family = b.family /\ a.w = b.w /\ a.h = b.h
    /\ a.bounds = b.bounds /\ a.max_iter = b.max_iter

\* C22 as stated: two compute calls of a deterministic variant with identical
\* width, height, bounds and parameters return identical fields cell for cell,
\* whatever was computed in between: the seed depends on the bounds only.
C22_SameInputsSameField ==
    \A i, j \in 1 .. Len(det_log) :
        SameInputs(det_log[i], det_log[j]) => det_log[i].field = det_log[j].field

\* C22 within one interpreter process: what the code does guarantee
C22_SameProcessSameField ==
    \A i, j \in 1 .. Len(det_log) :
        (SameInputs(det_log[i], det_log[j]) /\ det_log[i].run = det_log[j].run)
            => det_log[i].field = det_log[j].field

----------------------------------------------------------------------------
(* burning_ship_kernel, one pixel at a time, next to the recurrence        *)
(* z' = (|Re z| + i |Im z|)^2 + c it is meant to compute.  The stored      *)
(* value is a record as for the Mandelbrot kernel.                         *)

ShipWidth == 3

ShipHeight == 3

\* largest max_iter of a run
ShipMaxIter == 3

BurningShipDefaultBounds == <<R(-5, 2), R(3, 2), RI(-2), RI(1)>>

ShipBounds == {BurningShipDefaultBounds, <<RI(-2), RI(2), RI(-2), RI(2)>>,
               <<RI(-1), RI(1), RI(-1), RI(1)>>}

\* x = xmin + px * dx, y = ymin + py * dy with dx = (xmax - xmin) / width and
\* dy = (ymax - ymin) / height
KernelPixel(b, w, h, px, py) ==
    <<RAdd(b[1], RMul(RI(px), RDiv(RSub(b[2], b[1]), RI(w)))),
      RAdd(b[3], RMul(RI(py), RDiv(RSub(b[4], b[3]), RI(h))))>>

RAbs(p) == <<AbsInt(p[1]), p[2]>>

\* the loop body without the two abs calls: z * z + c
ShipMapWithoutAbs(z, c) == MandelbrotMap(z, c)

\* the loop body: zr_temp = zr * zr - zi * zi + cr; zi = abs(2.0 * zr * zi) + ci;
\* zr = abs(zr_temp)
BurningShipMap(z, c) ==
    <<RAbs(RAdd(RSub(RMul(z[1], z[1]), RMul(z[2], z[2])), c[1])),
      RAdd(RAbs(RMul(RI(2), RMul(z[1], z[2]))), c[2])>>

\* z' = (|Re z| + i |Im z|)^2 + c
ReferenceShipMap(z, c) ==
    LET a == RAbs(z[1])
        b == RAbs(z[2])
    IN  <<RAdd(RSub(RMul(a, a), RMul(b, b)), c[1]),
          RAdd(RMul(RI(2), RMul(a, b)), c[2])>>

\* the reference iterate z_k from z_0 = 0
RECURSIVE ReferenceIterate(_, _)
ReferenceIterate(c, k) ==
    IF k = 0 THEN <<RI(0), RI(0)>> ELSE ReferenceShipMap(ReferenceIterate(c, k - 1), c)

\* the reference's value for a pixel: the first i < max_iter with |z_i| > 2 and
\* the squared magnitude there, or max_iter
RECURSIVE ReferenceValue(_, _, _, _)
ReferenceValue(z, c, i, max_iter) ==
    IF i >= max_iter THEN Plain(max_iter)
    ELSE IF Escaped(z) THEN [escaped |-> TRUE, i |-> i, mag2 |-> Mag2(z)]
    ELSE ReferenceValue(ReferenceShipMap(z, c), c, i + 1, max_iter)

ShipInit ==
    /\ ship_args \in [bounds : ShipBounds, max_iter : 1 .. ShipMaxIter,
                       px : 0 .. ShipWidth - 1, py : 0 .. ShipHeight - 1]
    /\ ship_z = <<RI(0), RI(0)>>
    /\ ship_i = 0
    /\ ship_value = Plain(0)
    /\ ship_pc = "loop"

ShipIdle ==
    /\ ship_args = [bounds |-> BurningShipDefaultBounds, max_iter |-> 0, px |-> 0, py |-> 0]
    /\ ship_z = <<RI(0), RI(0)>>
    /\ ship_i = 0
    /\ ship_value = Plain(0)
    /\ ship_pc = "idle"

ShipC == KernelPixel(ship_args.bounds, ShipWidth, ShipHeight, ship_args.px, ship_args.py)

\* the loop body when zr * zr + zi * zi > 4.0: store the smooth value and break
ShipBreak ==
    /\ ship_pc = "loop"
    /\ ship_i < ship_args.max_iter
    /\ Escaped(ship_z)
    /\ ship_value' = [escaped |-> TRUE, i |-> ship_i, mag2 |-> Mag2(ship_z)]
    /\ ship_pc' = "done"
    /\ UNCHANGED <<ship_args, ship_z, ship_i>>
    /\ UNCHANGED <<view_vars, ifs_vars, sp_vars, bc_vars, esc_vars, rd_vars, cm_vars, pal_vars, ui_vars, col_vars, det_vars, ag_vars, co_vars>>

\* the loop body otherwise: one Burning Ship iteration
ShipIterate ==
    /\ ship_pc = "loop"
    /\ ship_i < ship_args.max_iter
    /\ ~Escaped(ship_z)
    /\ ship_z' = BurningShipMap(ship_z, ShipC)
    /\ ship_i' = ship_i + 1
    /\ UNCHANGED <<ship_args, ship_value, ship_pc>>
    /\ UNCHANGED <<view_vars, ifs_vars, sp_vars, bc_vars, esc_vars, rd_vars, cm_vars, pal_vars, ui_vars, col_vars, det_vars, ag_vars, co_vars>>

\* the loop's else branch: result[py, px] = max_iter
ShipElse ==
    /\ ship_pc = "loop"
    /\ ship_i >= ship_args.max_iter
    /\ ship_value' = Plain(ship_args.max_iter)
    /\ ship_pc' = "done"
    /\ UNCHANGED <<ship_args, ship_z, ship_i>>
    /\ UNCHANGED <<view_vars, ifs_vars, sp_vars, bc_vars, esc_vars, rd_vars, cm_vars, pal_vars, ui_vars, col_vars, det_vars, ag_vars, co_vars>>

ShipNext == ShipBreak \/ ShipIterate \/ ShipElse

\* C27: burning_ship_kernel agrees with the recurrence z' = (|Re z| + i |Im z|)^2 + c
\* from z = 0: inside the loop the kernel's z is the reference iterate with the
\* real part's sign dropped, so the squared magnitudes are equal at every test;
\* after the loop the stored value is the reference's: the same escape step with
\* the same squared magnitude, or max_iter for the same pixels.
C27_ShipMatchesReference ==
    LET ref == ReferenceIterate(ShipC, ship_i)
    IN  /\ ship_pc = "loop" =>
              /\ ship_z = <<RAbs(ref[1]), ref[2]>>
              /\ ship_i < ship_args.max_iter =>
                    /\ Mag2(ship_z) = Mag2(ref)
                    /\ Escaped(ship_z) = Escaped(ref)
        /\ ship_pc = "done" =>
              ship_value = ReferenceValue(<<RI(0), RI(0)>>, ShipC, 0, ship_args.max_iter)

\* a pixel with a negative real part: the reference's first iterate is c, the
\* kernel holds its real part's absolute value and has iterated on from there
C27_Witness ==
    /\ ship_pc = "done"
    /\ ship_i >= 2
    /\ RLt(ReferenceIterate(ShipC, 1)[1], RI(0))
    /\ ship_z # ReferenceIterate(ShipC, ship_i)

----------------------------------------------------------------------------
(* render(progressive=False) and render(progressive=True) of one renderer  *)
(* on the same bounds, parameters and palette, side by side.  A field is   *)
(* kept as in the renderer section, by its shape and the level it was      *)
(* computed at: a deterministic family computes the same field from the    *)
(* same width, height, bounds and parameters.                              *)

DeterministicFamilies == {"MandelbrotSet", "JuliaSet"}

NoRun == [outcome |-> "none", data |-> NoData, image |-> NoImage]

\* a renderer of any canvas size, and the arguments of the two render calls
AgreeInit ==
    /\ ag_args \in [family : DeterministicFamilies, size : CanvasSizes,
                    params : RenderParams]
    /\ ag_bounds \in RenderBounds(ag_args.family) \ {NoBounds}
    /\ ag_direct = NoRun
    /\ ag_ladder = NoRun
    /\ ag_levels = <<>>
    /\ ag_pc = "idle"

AgreeIdle ==
    /\ ag_args = [family |-> "MandelbrotSet", size |-> <<16, 8>>, params |-> <<>>]
    /\ ag_bounds = MandelbrotDefaultBounds
    /\ ag_direct = NoRun
    /\ ag_ladder = NoRun
    /\ ag_levels = <<>>
    /\ ag_pc = "off"

\* render(bounds, progressive=False, **params)
DirectRun ==
    /\ ag_pc = "idle"
    /\ ag_direct = NoRun
    /\ \E result \in compute(ag_args.family, ag_args.size[1], ag_args.size[2], ag_bounds,
                            ag_args.params) :
          ag_direct' =
              IF result.kind = "field"
              THEN [outcome |-> "returned",
                    data |-> [call |-> 1, level |-> 1, h |-> result.h, w |-> result.w],
                    image |-> [call |-> 1, shape |-> <<result.h, result.w, 3>>]]
              ELSE [outcome |-> "raised", data |-> NoData, image |-> NoImage]
    /\ UNCHANGED <<ag_args, ag_bounds, ag_ladder, ag_levels, ag_pc>>
    /\ UNCHANGED <<view_vars, ifs_vars, sp_vars, bc_vars, esc_vars, rd_vars, cm_vars, pal_vars, ui_vars, col_vars, det_vars, ship_vars, co_vars>>

\* render(bounds, progressive=True, **params), up to the first level of the ladder
LadderStart ==
    /\ ag_pc = "idle"
    /\ ag_ladder = NoRun
    /\ ag_pc' = "ladder"
    /\ UNCHANGED <<ag_args, ag_bounds, ag_direct, ag_ladder, ag_levels>>
    /\ UNCHANGED <<view_vars, ifs_vars, sp_vars, bc_vars, esc_vars, rd_vars, cm_vars, pal_vars, ui_vars, col_vars, det_vars, ship_vars, co_vars>>

\* _progressive_render: if level > 1: data = self._upscale(...)
Upscaled(level) == level > 1

\* one level of _progressive_render; the last level also returns
LadderLevel ==
    /\ ag_pc = "ladder"
    /\ LET k == Len(ag_levels) + 1
           level == progressive_levels[k]
           w == ag_args.size[1] \div level
           h == ag_args.size[2] \div level
       IN  \E result \in compute(ag_args.family, w, h, ag_bounds, ag_args.params) :
              LET failed == \/ result.kind = "raised"
                            \/ Upscaled(level) /\ (result.h = 0 \/ result.w = 0)
                  shape == IF Upscaled(level) /\ ~failed
                           THEN UpscaledShape(result.h, result.w, ag_args.size[1],
                                              ag_args.size[2])
                           ELSE <<result.h, result.w>>
                  data == [call |-> 1, level |-> level,
                           h |-> shape[1], w |-> shape[2]]
              IN  /\ ag_levels' = Append(ag_levels, [level |-> level, w |-> w, h |-> h,
                                                     upscaled |-> Upscaled(level)])
                  /\ IF failed
                     THEN /\ ag_ladder' = [outcome |-> "raised", data |-> ag_ladder.data,
                                           image |-> ag_ladder.image]
                          /\ ag_pc' = "idle"
                     ELSE /\ ag_ladder' = [outcome |-> IF k = Len(progressive_levels)
                                                       THEN "returned" ELSE "none",
                                           data |-> data,
                                           image |-> [call |-> 1,
                                                      shape |-> <<data.h, data.w, 3>>]]
                          /\ ag_pc' = IF k = Len(progressive_levels) THEN "idle" ELSE "ladder"
    /\ UNCHANGED <<ag_args, ag_bounds, ag_direct>>
    /\ UNCHANGED <<view_vars, ifs_vars, sp_vars, bc_vars, esc_vars, rd_vars, cm_vars, pal_vars, ui_vars, col_vars, det_vars, ship_vars, co_vars>>

AgreeNext == DirectRun \/ LadderStart \/ LadderLevel

\* both calls have ended
BothRan ==
    /\ ag_pc = "idle"
    /\ ag_direct.outcome # "none"
    /\ ag_ladder.outcome # "none"

\* C28 as stated: the ladder is processed in the order 8, 4, 2, 1, each level
\* once, the last level at full resolution with no upsampling, and for a
\* deterministic family render(progressive=True) returns the image and leaves the
\* current_data that render(progressive=False) does on the same bounds,
\* parameters and palette.
C28_ProgressiveAgreesWithDirect ==
    (BothRan /\ ag_direct.outcome = "returned") =>
        /\ ag_ladder.outcome = "returned"
        /\ [k \in 1 .. Len(ag_levels) |-> ag_levels[k].level] = progressive_levels
        /\ ag_levels[Len(ag_levels)] =
               [level |-> 1, w |-> ag_args.size[1], h |-> ag_args.size[2],
                upscaled |-> FALSE]
        /\ ag_ladder.image = ag_direct.image
        /\ ag_ladder.data = ag_direct.data

\* C28 on canvases of at least 8 x 8 pixels, where every level has a pixel
C28_AgreesFromEightPixels ==
    (BothRan /\ ag_direct.outcome = "returned"
        /\ ag_args.size[1] >= 8 /\ ag_args.size[2] >= 8) =>
        /\ ag_ladder.outcome = "returned"
        /\ [k \in 1 .. Len(ag_levels) |-> ag_levels[k].level] = progressive_levels
        /\ ag_levels[Len(ag_levels)] =
               [level |-> 1, w |-> ag_args.size[1], h |-> ag_args.size[2],
                upscaled |-> FALSE]
        /\ ag_ladder.image = ag_direct.image
        /\ ag_ladder.data = ag_direct.data

----------------------------------------------------------------------------
(* The viewport's pixel_to_fractal next to the kernels' pixel mappings, on *)
(* a renderer of any size.  A pixel is mapped to its coordinate by the     *)
(* viewport, and the coordinate to the field cell in which the family's    *)
(* kernel stores what it finds there.                                      *)

\* <<width, height>> of the renderer
CoordSizes == {<<4, 2>>, <<3, 3>>, <<2, 5>>}

\* the families whose kernel walks the pixels and computes x, y from px, py
PixelKernelFamilies ==
    {"MandelbrotSet", "JuliaSet", "BurningShip", "DeterministicSierpinskiTriangle"}

\* the families whose kernel walks points and computes px, py from x, y
PointKernelFamilies == {"SierpinskiTriangle", "DeterministicSierpinskiChaos"}

\* FractalRenderer2D.pixel_to_fractal on a renderer of width w and height h
ViewportPoint(b, w, h, px, py) ==
    <<RAdd(b[1], RMul(R(px, w), RSub(b[2], b[1]))),
      RAdd(b[3], RMul(R(py, h), RSub(b[4], b[3])))>>

NoCell == <<-1, -1>>

\* compute_sierpinski and sierpinski_chaos_game_deterministic: the cell
\* <<row, column>> a point (x, y) is accumulated in (with anti-aliasing, the cell
\* of weight w00), px = int((x - xmin) / (xmax - xmin) * (width - 1)) and
\* result[height - 1 - py, px]
PointCell(b, w, h, x, y) ==
    LET px == RInt(RMul(RDiv(RSub(x, b[1]), RSub(b[2], b[1])), RI(w - 1)))
        py == RInt(RMul(RDiv(RSub(y, b[3]), RSub(b[4], b[3])), RI(h - 1)))
    IN  IF 0 <= px /\ px < w /\ 0 <= py /\ py < h THEN <<h - 1 - py, px>> ELSE NoCell

\* the pixel kernels: the cell <<row, column>> = <<py, px>> whose x, y is the point
PixelCell(b, w, h, x, y) ==
    LET cells == {c \in (0 .. h - 1) \X (0 .. w - 1) :
                     KernelPixel(b, w, h, c[2], c[1]) = <<x, y>>}
    IN  IF cells = {} THEN NoCell ELSE CHOOSE c \in cells : TRUE

\* the field cell in which the family's kernel stores what lies at (x, y)
KernelCell(family, b, w, h, x, y) ==
    IF family \in PixelKernelFamilies
    THEN PixelCell(b, w, h, x, y)
    ELSE PointCell(b, w, h, x, y)

CoordInit ==
    /\ \E family \in PixelKernelFamilies \cup PointKernelFamilies, size \in CoordSizes :
          \E px \in 0 .. size[1] - 1, py \in 0 .. size[2] - 1 :
             co_args = [family |-> family, bounds |-> get_default_bounds(family),
                        w |-> size[1], h |-> size[2], px |-> px, py |-> py]
    /\ co_point = <<RI(0), RI(0)>>
    /\ co_cell = NoCell
    /\ co_pc = "pixel"

CoordIdle ==
    /\ co_args = [family |-> "MandelbrotSet", bounds |-> MandelbrotDefaultBounds,
                  w |-> 0, h |-> 0, px |-> 0, py |-> 0]
    /\ co_point = <<RI(0), RI(0)>>
    /\ co_cell = NoCell
    /\ co_pc = "off"

\* renderer.pixel_to_fractal(px, py)
PixelToFractal ==
    /\ co_pc = "pixel"
    /\ co_point' = ViewportPoint(co_args.bounds, co_args.w, co_args.h, co_args.px, co_args.py)
    /\ co_pc' = "point"
    /\ UNCHANGED <<co_args, co_cell>>
    /\ UNCHANGED <<view_vars, ifs_vars, sp_vars, bc_vars, esc_vars, rd_vars, cm_vars, pal_vars, ui_vars, col_vars, det_vars, ship_vars, ag_vars>>

\* fractal.compute(width, height, bounds): where the kernel stores that point
KernelStores ==
    /\ co_pc = "point"
    /\ co_cell' = KernelCell(co_args.family, co_args.bounds, co_args.w, co_args.h,
                             co_point[1], co_point[2])
    /\ co_pc' = "cell"
    /\ UNCHANGED <<co_args, co_point>>
    /\ UNCHANGED <<view_vars, ifs_vars, sp_vars, bc_vars, esc_vars, rd_vars, cm_vars, pal_vars, ui_vars, col_vars, det_vars, ship_vars, ag_vars>>

CoordNext == PixelToFractal \/ KernelStores

\* C29 as stated: for every family, escape-time, analytic and IFS, the value in
\* field cell [py][px] belongs to the coordinate pixel_to_fractal(px, py) of the
\* same bounds and resolution: same row orientation, same per-pixel step.
C29_KernelsAgreeWithViewport ==
    co_pc = "cell" => co_cell = <<co_args.py, co_args.px>>

\* C29 for the kernels that walk the pixels: escape-time and analytic
C29_PixelKernelsAgree ==
    (co_pc = "cell" /\ co_args.family \in PixelKernelFamilies) =>
        co_cell = <<co_args.py, co_args.px>>

----------------------------------------------------------------------------
(* Specifications, one per part of the program: the part's variables start *)
(* as its construction leaves them, every other part rests.                *)

ViewStart == ViewInit /\ IfsIdle /\ SierpIdle /\ BudgetIdle /\ EscIdle /\ RenderIdle /\ ColorIdle /\ PaletteIdle /\ WindowIdle /\ ColorCallIdle /\ DetIdle /\ ShipIdle /\ AgreeIdle /\ CoordIdle

IfsStart == IfsInit /\ ViewIdle /\ SierpIdle /\ BudgetIdle /\ EscIdle /\ RenderIdle /\ ColorIdle /\ PaletteIdle /\ WindowIdle /\ ColorCallIdle /\ DetIdle /\ ShipIdle /\ AgreeIdle /\ CoordIdle

SierpStart == SierpInit /\ ViewIdle /\ IfsIdle /\ BudgetIdle /\ EscIdle /\ RenderIdle /\ ColorIdle /\ PaletteIdle /\ WindowIdle /\ ColorCallIdle /\ DetIdle /\ ShipIdle /\ AgreeIdle /\ CoordIdle

BudgetStart == BudgetInit /\ ViewIdle /\ IfsIdle /\ SierpIdle /\ EscIdle /\ RenderIdle /\ ColorIdle /\ PaletteIdle /\ WindowIdle /\ ColorCallIdle /\ DetIdle /\ ShipIdle /\ AgreeIdle /\ CoordIdle

EscStart == EscInit /\ ViewIdle /\ IfsIdle /\ SierpIdle /\ BudgetIdle /\ RenderIdle /\ ColorIdle /\ PaletteIdle /\ WindowIdle /\ ColorCallIdle /\ DetIdle /\ ShipIdle /\ AgreeIdle /\ CoordIdle

RenderStart == RenderInit /\ IfsIdle /\ SierpIdle /\ BudgetIdle /\ EscIdle /\ ColorIdle /\ PaletteIdle /\ WindowIdle /\ ColorCallIdle /\ DetIdle /\ ShipIdle /\ AgreeIdle /\ CoordIdle

PaletteStart ==
    /\ PaletteInit /\ RenderIdle /\ WindowIdle
    /\ ViewIdle /\ IfsIdle /\ SierpIdle /\ BudgetIdle /\ EscIdle /\ ColorCallIdle /\ DetIdle /\ ShipIdle /\ AgreeIdle /\ CoordIdle

WindowStart ==
    /\ WindowInit /\ ColorIdle /\ PaletteIdle /\ RenderIdle
    /\ ViewIdle /\ IfsIdle /\ SierpIdle /\ BudgetIdle /\ EscIdle /\ ColorCallIdle /\ DetIdle /\ ShipIdle /\ AgreeIdle /\ CoordIdle

ColorStart ==
    /\ ColorCallInit /\ PaletteIdle /\ RenderIdle /\ WindowIdle
    /\ ViewIdle /\ IfsIdle /\ SierpIdle /\ BudgetIdle /\ EscIdle /\ DetIdle /\ ShipIdle /\ AgreeIdle /\ CoordIdle

DetStart ==
    /\ DetInit /\ ColorIdle /\ PaletteIdle /\ RenderIdle /\ WindowIdle
    /\ ViewIdle /\ IfsIdle /\ SierpIdle /\ BudgetIdle /\ EscIdle /\ ColorCallIdle /\ ShipIdle /\ AgreeIdle /\ CoordIdle

ShipStart ==
    /\ ShipInit /\ ViewIdle /\ IfsIdle /\ SierpIdle /\ BudgetIdle /\ EscIdle
    /\ RenderIdle /\ ColorIdle /\ PaletteIdle /\ WindowIdle /\ ColorCallIdle /\ DetIdle /\ AgreeIdle /\ CoordIdle

AgreeStart ==
    /\ AgreeInit /\ ViewIdle /\ IfsIdle /\ SierpIdle /\ BudgetIdle /\ EscIdle
    /\ RenderIdle /\ ColorIdle /\ PaletteIdle /\ WindowIdle /\ ColorCallIdle /\ DetIdle
    /\ ShipIdle /\ CoordIdle

CoordStart ==
    /\ CoordInit /\ ViewIdle /\ IfsIdle /\ SierpIdle /\ BudgetIdle /\ EscIdle
    /\ RenderIdle /\ ColorIdle /\ PaletteIdle /\ WindowIdle /\ ColorCallIdle /\ DetIdle
    /\ ShipIdle /\ AgreeIdle

SpecView == ViewStart /\ [][ViewNext]_vars

SpecIfs == IfsStart /\ [][IfsNext]_vars

SpecSierp == SierpStart /\ [][SierpNext]_vars

SpecBudget == BudgetStart /\ [][BudgetNext]_vars

SpecEscape == EscStart /\ [][EscNext]_vars

SpecRender == RenderStart /\ [][RenderNext]_vars

SpecPalette == PaletteStart /\ [][PaletteNext]_vars

SpecWindow == WindowStart /\ [][WindowNext]_vars

SpecColor == ColorStart /\ [][ColorNext]_vars

SpecDet == DetStart /\ [][DetNext]_vars

SpecShip == ShipStart /\ [][ShipNext]_vars

SpecAgree == AgreeStart /\ [][AgreeNext]_vars

SpecCoord == CoordStart /\ [][CoordNext]_vars

====
